---- MODULE Spec2Model ----
(***************************************************************************)
(* State-machine model of ForgacM/AI-agents-learning:                      *)
(*   - the multi-server tool router  (lesson_5 clients/multi_mcp_client.py)*)
(*   - the single-shot agent         (lesson_1 main.py, Agent.run)         *)
(*   - the ReAct agent loop          (lesson_2 main.py, Agent.run)         *)
(*   - the LLM adapters              (lesson_5 clients/ollama_client.py,   *)
(*                                    clients/llm_client.py)               *)
(*   - the flattening of tool responses (call_tool against lesson_2's      *)
(*                                    mcp_tool_response_to_text)           *)
(*   - the temperature cache and get_pool (lesson_5 mcp_servers/           *)
(*                                    db_server.py)                        *)
(*   - the cache check of the graph workflow (lesson_6 02_langgraph/       *)
(*                                    graph.py)                            *)
(*   - json.dumps / json.loads of tool-call arguments                      *)
(*   - the multi-city workflow definition (lesson_5 workflows/             *)
(*                                    temperature_cache_workflow.py)       *)
(* Each subsystem has its own specification (SpecRouter, SpecListing,      *)
(* SpecAgent, SpecAdapter, SpecFlatten, SpecCache, SpecPool, SpecGraph,    *)
(* SpecJson, SpecWorkflow); the variables of the other subsystems stay at  *)
(* their initial values.                                                   *)
(***************************************************************************)
EXTENDS Integers, Sequences, FiniteSets, TLC

VARIABLES
    \* ---- MultiMCPClient / MCPServerConnection (multi_mcp_client.py) ----
    session,          \* conn.session per server: "None" | "opened" | "ready"
    tools,            \* conn.tools per server: list of tool names
    _connected,       \* conn._connected per server
    _tool_to_server,  \* MultiMCPClient._tool_to_server: tool name -> server | "None"
    connect_pc,       \* connect(): 0 when not running, else index of the next server
    last,             \* observable outcome of the last router operation
    \* ---- Agent.run (lesson_1 / lesson_2 main.py) ----
    prog,             \* which script's Agent.run is executing
    pc,               \* position inside Agent.run
    iteration,        \* lesson_2: loop counter
    messages,         \* the conversation list passed to run()
    response_message, \* the LLM response being processed
    tc_index,         \* lesson_2: position of the for-loop over tool_calls
    result,           \* value returned by run()
    exc,              \* exception that escaped run(), "none" if none
    llm_log,          \* history: every response the LLM returned, in order
    dispatch_log,     \* history: every tool dispatch attempted, in order
    \* ---- OllamaClient.call / LLMClient.call (ollama_client.py, llm_client.py) ----
    http,             \* what the POST to /api/chat meets: failure or response body
    completion,       \* per client class: outcome of call() on that exchange
    \* ---- flattening of a tool response (multi_mcp_client.py, lesson_2 main.py) ----
    tool_response,    \* the response object session.call_tool returned
    flattened,        \* per implementation: the text made of tool_response
    \* ---- temperature cache (mcp_servers/db_server.py) ----
    temperature_cache, \* the rows of table temperature_cache
    now,              \* the clock: NOW() and datetime.now(), in hours
    db_result,        \* the dict the last tool call returned
    \* ---- get_pool (mcp_servers/db_server.py) ----
    _pool,            \* the module global: 0 for None, else the pool's number
    pools,            \* number of pools aiomysql.create_pool has created
    init_db_runs,     \* number of times init_db ran its schema statements
    get_pool_pc,      \* per coroutine: position inside get_pool
    get_pool_ret,     \* per coroutine: the pool get_pool returned, 0 for none yet
    \* ---- CheckCacheNode / needs_fetch_router (lesson_6 02_langgraph/graph.py) ----
    state,            \* MyState: cities, cached_cities, missing_cities, needs_fetch
    response_content, \* the text of the cache-check agent's last message
    route,            \* the node needs_fetch_router chose, "none" before it ran
    \* ---- tool-call arguments between adapter and agent loop ----
    json_obj,         \* the argument mapping the backend sent
    json_text,        \* json.dumps(arguments), as the adapter stores it
    json_parsed,      \* json.loads(tool_call.function.arguments), as the loop reads it
    \* ---- MULTI_CITY_TEMPERATURE_WORKFLOW (temperature_cache_workflow.py) ----
    context,          \* the execution context: {"cities": cities}
    current_node,     \* id of the node the execution stands on, "none" before it starts
    visited,          \* ids of the nodes the execution has stood on, in order
    condition_result  \* what the condition node answered: "none" | "true" | "false"

routerVars == <<session, tools, _connected, _tool_to_server, connect_pc, last>>
agentVars == <<prog, pc, iteration, messages, response_message, tc_index,
               result, exc, llm_log, dispatch_log>>
adapterVars == <<http, completion>>
flattenVars == <<tool_response, flattened>>
cacheVars == <<temperature_cache, now, db_result>>
poolVars == <<_pool, pools, init_db_runs, get_pool_pc, get_pool_ret>>
graphVars == <<state, response_content, route>>
jsonVars == <<json_obj, json_text, json_parsed>>
workflowVars == <<context, current_node, visited, condition_result>>
vars == <<session, tools, _connected, _tool_to_server, connect_pc, last,
          prog, pc, iteration, messages, response_message, tc_index,
          result, exc, llm_log, dispatch_log,
          http, completion, tool_response, flattened,
          temperature_cache, now, db_result,
          _pool, pools, init_db_runs, get_pool_pc, get_pool_ret,
          state, response_content, route,
          json_obj, json_text, json_parsed,
          context, current_node, visited, condition_result>>

\* What each subsystem's operations leave alone.
dbVars == <<cacheVars, poolVars, graphVars, jsonVars, workflowVars>>
notRouterVars == <<agentVars, adapterVars, flattenVars, dbVars>>
notAgentVars == <<routerVars, adapterVars, flattenVars, dbVars>>
notAdapterVars == <<routerVars, agentVars, flattenVars, dbVars>>
notFlattenVars == <<routerVars, agentVars, adapterVars, dbVars>>
clientVars == <<routerVars, agentVars, adapterVars, flattenVars>>
notCacheVars == <<clientVars, poolVars, graphVars, jsonVars, workflowVars>>
notPoolVars == <<clientVars, cacheVars, graphVars, jsonVars, workflowVars>>
notGraphVars == <<clientVars, cacheVars, poolVars, jsonVars, workflowVars>>
notJsonVars == <<clientVars, cacheVars, poolVars, graphVars, workflowVars>>
notWorkflowVars == <<clientVars, cacheVars, poolVars, graphVars, jsonVars>>

(***************************************************************************)
(* Bounds                                                                  *)
(***************************************************************************)
\* Size of the universe of tool names the remote servers may report.
NumTools == 3

\* Longest tool_calls list in a message of the LLM backend.
MaxToolCalls == 2

\* Longest content list in a response of a tool backend.
MaxParts == 3

ToolNames == 1..NumTools

(***************************************************************************)
(* Generic helpers                                                         *)
(***************************************************************************)
RECURSIVE SetToSeq(_)
\* The elements of a finite set of integers as an ascending list.
SetToSeq(S) ==
    IF S = {} THEN <<>>
    ELSE LET m == CHOOSE x \in S : \A y \in S : x <= y
         IN  <<m>> \o SetToSeq(S \ {m})

Range(s) == {s[i] : i \in 1..Len(s)}

(***************************************************************************)
(* MultiMCPClient: construction                                            *)
(***************************************************************************)
\* self.connections: dict in insertion order (the default configuration).
connections == <<"weather", "db">>

ServerNames == Range(connections)

\* A single MCPServerConnection object.
MCPServerConnection(s, t, c) == [session |-> s, tools |-> t, _connected |-> c]

\* What one conn.connect() attempt meets: the step that fails ("none" when
\* every step succeeds) and the tool list the server reports in list_tools().
ConnectOutcomes ==
    {[fail |-> f, tools |-> <<>>] : f \in {"http", "session", "initialize", "list_tools"}}
    \cup {[fail |-> "none", tools |-> SetToSeq(S)] : S \in SUBSET ToolNames}

NoOp == [op |-> "none", tool |-> 0, raised |-> FALSE, kind |-> "none",
         text |-> <<>>, calls |-> <<>>, defs |-> <<>>]

(***************************************************************************)
(* MCPServerConnection.connect / disconnect                                *)
(***************************************************************************)
\* conn.connect() with everything succeeding or failing at step o.fail.
\* The session attribute is assigned before initialize() and list_tools()
\* run, tools and _connected only after list_tools() returned; the except
\* branch resets _connected alone and re-raises.
conn_connect(c, o) ==
    CASE o.fail \in {"http", "session"} ->
            [c EXCEPT !._connected = FALSE]
      [] o.fail = "initialize" ->
            [c EXCEPT !.session = "opened", !._connected = FALSE]
      [] o.fail = "list_tools" ->
            [c EXCEPT !.session = "ready", !._connected = FALSE]
      [] OTHER ->
            [session |-> "ready", tools |-> o.tools, _connected |-> TRUE]

\* conn.disconnect(): returns at once when not connected, else drops the
\* session and clears the flag; conn.tools is left as it is.
conn_disconnect(c) ==
    IF ~c._connected THEN c
    ELSE [c EXCEPT !.session = "None", !._connected = FALSE]

(***************************************************************************)
(* MultiMCPClient.connect                                                  *)
(***************************************************************************)
\* Variant of the routing-map update in which an existing owner is kept.
route_tool_keep_first(reg, tool_name, name) ==
    IF reg[tool_name] = "None" THEN [reg EXCEPT ![tool_name] = name] ELSE reg

\* self._tool_to_server[tool_name] = conn
route_tool(reg, tool_name, name) ==
    [reg EXCEPT ![tool_name] = name]

RECURSIVE build_routing_map(_, _, _)
\* for tool_name in conn.tools: self._tool_to_server[tool_name] = conn
build_routing_map(reg, tool_list, name) ==
    IF tool_list = <<>> THEN reg
    ELSE build_routing_map(route_tool(reg, Head(tool_list), name), Tail(tool_list), name)

\* The for-loop's successor: the except branch only logs, the loop goes on.
connect_next(i, failed) == i + 1

\* if not self._tool_to_server: raise RuntimeError(...)
connect_raises(reg) == \A t \in ToolNames : reg[t] = "None"

Conn(name) == MCPServerConnection(session[name], tools[name], _connected[name])

\* One iteration of "for name, conn in self.connections.items()": the
\* awaited conn.connect(), the routing-map update on success, the logged
\* and swallowed exception on failure; after the last server the emptiness
\* check of the routing map decides between RuntimeError and return.
Connect ==
    \E o \in ConnectOutcomes :
        LET i     == IF connect_pc = 0 THEN 1 ELSE connect_pc
            tried == IF connect_pc = 0 THEN <<>> ELSE last.calls
            name  == connections[i]
            c     == conn_connect(Conn(name), o)
            ok    == o.fail = "none"
            reg   == IF ok THEN build_routing_map(_tool_to_server, c.tools, name)
                     ELSE _tool_to_server
            next  == connect_next(i, ~ok)
        IN  /\ session' = [session EXCEPT ![name] = c.session]
            /\ tools' = [tools EXCEPT ![name] = c.tools]
            /\ _connected' = [_connected EXCEPT ![name] = c._connected]
            /\ _tool_to_server' = reg
            /\ IF next > Len(connections)
               THEN /\ connect_pc' = 0
                    /\ last' = [NoOp EXCEPT !.op = "connect",
                                            !.raised = connect_raises(reg),
                                            !.calls = Append(tried, name)]
               ELSE /\ connect_pc' = next
                    /\ last' = [NoOp EXCEPT !.op = "connecting",
                                            !.calls = Append(tried, name)]
            /\ UNCHANGED notRouterVars

(***************************************************************************)
(* MultiMCPClient.disconnect                                               *)
(***************************************************************************)
Disconnect ==
    /\ connect_pc = 0
    /\ session' = [n \in ServerNames |-> conn_disconnect(Conn(n)).session]
    /\ _connected' = [n \in ServerNames |-> conn_disconnect(Conn(n))._connected]
    /\ last' = [NoOp EXCEPT !.op = "disconnect"]
    /\ UNCHANGED <<tools, _tool_to_server, connect_pc>>
    /\ UNCHANGED notRouterVars

(***************************************************************************)
(* MultiMCPClient.call_tool / get_server_for_tool                          *)
(***************************************************************************)
\* Content parts of a tool response: TextContent has .text, others do not.
TextPart(t) == [text |-> t]
OtherPart == [text |-> "NoAttr"]

\* What the remote session.call_tool() may do: raise, or return a response
\* with an optional structured payload and an ordered list of content parts.
RemoteResponses ==
    {[structuredContent |-> "None", content |-> <<>>],
     [structuredContent |-> "None", content |-> <<TextPart("r1"), OtherPart, TextPart("r2")>>]}

RemoteOutcomes == {[raises |-> TRUE, response |-> [structuredContent |-> "None", content |-> <<>>]]}
                  \cup {[raises |-> FALSE, response |-> r] : r \in RemoteResponses}

\* A session that never completed initialize() cannot serve a request.
SessionOutcomes(s) ==
    IF s = "ready" THEN RemoteOutcomes ELSE {o \in RemoteOutcomes : o.raises}

RECURSIVE text_parts(_)
\* for content in response.content: if hasattr(content, "text"): append
text_parts(content) ==
    IF content = <<>> THEN <<>>
    ELSE (IF Head(content).text # "NoAttr" THEN <<Head(content).text>> ELSE <<>>)
         \o text_parts(Tail(content))

\* The text call_tool returns for the response of the remote call, as the
\* list of the joined lines.
call_tool_text(response) ==
    IF response.content # <<>> THEN text_parts(response.content)
    ELSE <<"No response content">>

\* if not conn.session: return "Error: Server ... is not connected"
has_session(c) == c.session # "None"

\* Variant of the owner lookup that routes a known tool to the first
\* server that is connected instead of the registered owner.
lookup_owner_first_connected(tool_name) ==
    IF _tool_to_server[tool_name] = "None" THEN "None"
    ELSE IF \E i \in 1..Len(connections) : _connected[connections[i]]
    THEN connections[CHOOSE i \in 1..Len(connections) :
                        /\ _connected[connections[i]]
                        /\ \A j \in 1..(i - 1) : ~_connected[connections[j]]]
    ELSE _tool_to_server[tool_name]

\* conn = self._tool_to_server.get(tool_name)
lookup_owner(tool_name) == _tool_to_server[tool_name]

\* The value call_tool returns, and the remote calls it issued.
call_tool(tool_name, o) ==
    LET owner == lookup_owner(tool_name) IN
    IF owner = "None"
    THEN [NoOp EXCEPT !.op = "call_tool", !.tool = tool_name, !.kind = "not_found"]
    ELSE IF ~has_session(Conn(owner))
    THEN [NoOp EXCEPT !.op = "call_tool", !.tool = tool_name, !.kind = "not_connected"]
    ELSE IF o.raises
    THEN [NoOp EXCEPT !.op = "call_tool", !.tool = tool_name, !.kind = "call_error",
                      !.calls = <<owner>>]
    ELSE IF o.response.content # <<>>
    THEN [NoOp EXCEPT !.op = "call_tool", !.tool = tool_name, !.kind = "text",
                      !.text = call_tool_text(o.response), !.calls = <<owner>>]
    ELSE [NoOp EXCEPT !.op = "call_tool", !.tool = tool_name, !.kind = "no_content",
                      !.calls = <<owner>>]

CallTool ==
    \E tool_name \in ToolNames, o \in RemoteOutcomes :
        /\ connect_pc = 0
        /\ LET owner == _tool_to_server[tool_name]
           IN  IF owner # "None" /\ session[owner] # "None"
               THEN o \in SessionOutcomes(session[owner])
               ELSE o.raises
        /\ last' = call_tool(tool_name, o)
        /\ UNCHANGED <<session, tools, _connected, _tool_to_server, connect_pc>>
        /\ UNCHANGED notRouterVars

\* conn = self._tool_to_server.get(tool_name); return conn.name if conn else None
get_server_for_tool(tool_name) == _tool_to_server[tool_name]

(***************************************************************************)
(* MultiMCPClient.list_tools / get_tools_definitions                       *)
(***************************************************************************)
\* A Tool object as a server reports it: its name, and the description and
\* input schema that server attaches to it (both named after the server).
Tool(name, server) == [name |-> name, description |-> server, inputSchema |-> server]

\* What one awaited conn.session.list_tools() does: raise, or return names.
ListToolsOutcome(raises, names) == [raises |-> raises, names |-> names]

\* The answers the server behind connection n may give: a session that never
\* completed initialize() cannot serve the request; a connected server
\* reports the tools it reported at connect time, unless the request fails;
\* over a session whose connect() failed the request may fail, or report
\* no tool, or report every tool.
ListToolsOutcomes(n) ==
    IF session[n] # "ready" THEN {ListToolsOutcome(TRUE, <<>>)}
    ELSE IF _connected[n]
    THEN {ListToolsOutcome(TRUE, <<>>), ListToolsOutcome(FALSE, tools[n])}
    ELSE {ListToolsOutcome(TRUE, <<>>), ListToolsOutcome(FALSE, <<>>),
          ListToolsOutcome(FALSE, SetToSeq(ToolNames))}

\* One answer per server.
AllListToolsOutcomes ==
    {outs \in [ServerNames -> UNION {ListToolsOutcomes(n) : n \in ServerNames}] :
        \A n \in ServerNames : outs[n] \in ListToolsOutcomes(n)}

\* if conn.session:
listed(c) == c.session # "None"

RECURSIVE list_tools(_, _, _)
\* for conn in self.connections.values(): the loop from position i on, with
\* acc holding all_tools (defs) and the sessions queried so far (calls).
\* The awaited remote call is not inside a try block.
list_tools(i, outs, acc) ==
    IF i > Len(connections) THEN acc
    ELSE LET name == connections[i]
             o    == outs[name]
         IN  IF ~listed(Conn(name)) THEN list_tools(i + 1, outs, acc)
             ELSE IF o.raises
             THEN [acc EXCEPT !.raised = TRUE, !.calls = Append(@, name)]
             ELSE list_tools(i + 1, outs,
                     [acc EXCEPT !.calls = Append(@, name),
                                 !.defs = @ \o [j \in 1..Len(o.names) |->
                                                    Tool(o.names[j], name)]])

\* tools = await self.list_tools(), then one OpenAI function entry per tool.
get_tools_definitions(outs) ==
    LET listing == list_tools(1, outs, NoOp)
    IN  IF listing.raised THEN listing
        ELSE [listing EXCEPT !.defs =
                [j \in 1..Len(listing.defs) |->
                    [type |-> "function",
                     function |-> [name |-> listing.defs[j].name,
                                   description |-> listing.defs[j].description,
                                   parameters |-> listing.defs[j].inputSchema]]]]

ListTools ==
    \E outs \in AllListToolsOutcomes :
        /\ connect_pc = 0
        /\ last' = [list_tools(1, outs, NoOp) EXCEPT !.op = "list_tools"]
        /\ UNCHANGED <<session, tools, _connected, _tool_to_server, connect_pc>>
        /\ UNCHANGED notRouterVars

GetToolsDefinitions ==
    \E outs \in AllListToolsOutcomes :
        /\ connect_pc = 0
        /\ last' = [get_tools_definitions(outs) EXCEPT !.op = "get_tools_definitions"]
        /\ UNCHANGED <<session, tools, _connected, _tool_to_server, connect_pc>>
        /\ UNCHANGED notRouterVars

(***************************************************************************)
(* Specification of the router                                             *)
(***************************************************************************)
AgentIdle ==
    /\ prog = "none"
    /\ pc = "idle"
    /\ iteration = 0
    /\ messages = <<>>
    /\ response_message = [content |-> "", tool_calls |-> <<>>]
    /\ tc_index = 0
    /\ result = [kind |-> "none", message |-> [content |-> "", tool_calls |-> <<>>]]
    /\ exc = "none"
    /\ llm_log = <<>>
    /\ dispatch_log = <<>>

\* MCPServerConnection.__init__ and MultiMCPClient.__init__
RouterInit ==
    /\ session = [n \in ServerNames |-> "None"]
    /\ tools = [n \in ServerNames |-> <<>>]
    /\ _connected = [n \in ServerNames |-> FALSE]
    /\ _tool_to_server = [t \in ToolNames |-> "None"]
    /\ connect_pc = 0
    /\ last = NoOp

\* No exchange with the LLM backend is under way.
AdapterIdle ==
    /\ http = [kind |-> "none"]
    /\ completion = [kind |-> "none"]

\* No tool response is being flattened.
FlattenIdle ==
    /\ tool_response = [structuredContent |-> "None", content |-> <<>>]
    /\ flattened = [kind |-> "none"]

\* The database server has served no tool call.
CacheIdle ==
    /\ temperature_cache = {}
    /\ now = 0
    /\ db_result = [tool |-> "none"]

\* No coroutine has entered get_pool.
PoolIdle ==
    /\ _pool = 0
    /\ pools = 0
    /\ init_db_runs = 0
    /\ get_pool_pc = <<>>
    /\ get_pool_ret = <<>>

\* The graph workflow has not been invoked.
GraphIdle ==
    /\ state = [cities |-> <<>>]
    /\ response_content = <<>>
    /\ route = "none"

\* No argument mapping is on its way.
JsonIdle ==
    /\ json_obj = <<>>
    /\ json_text = <<>>
    /\ json_parsed = <<>>

\* No workflow execution has been started.
WorkflowIdle ==
    /\ context = [cities |-> <<>>]
    /\ current_node = "none"
    /\ visited = <<>>
    /\ condition_result = "none"

DbIdle == CacheIdle /\ PoolIdle /\ GraphIdle /\ JsonIdle /\ WorkflowIdle

InitRouter == RouterInit /\ AgentIdle /\ AdapterIdle /\ FlattenIdle /\ DbIdle

NextRouter == Connect \/ Disconnect \/ CallTool

SpecRouter == InitRouter /\ [][NextRouter]_vars

\* The router as the agent uses it to advertise tools to the LLM.
NextListing == Connect \/ Disconnect \/ ListTools \/ GetToolsDefinitions

SpecListing == InitRouter /\ [][NextListing]_vars

(***************************************************************************)
(* Agents: the LLM and the tool backends (external collaborators)          *)
(***************************************************************************)
\* self.max_iterations = 10
max_iterations == 10

SENTINEL == "Something is wrong sorry no sorry"

ToolCall(id, name, arguments) == [id |-> id, name |-> name, arguments |-> arguments]

Response(content, tool_calls) == [content |-> content, tool_calls |-> tool_calls]

NoResponse == Response("", <<>>)

ArgsBratislava == "{\"city\": \"Bratislava\"}"

PlainAnswer == Response("answer", <<>>)
OneCall == Response("", <<ToolCall("call_1", "get_weather", ArgsBratislava)>>)
TwoCalls == Response("", <<ToolCall("call_1", "get_weather", ArgsBratislava),
                           ToolCall("call_2", "no_such_tool", "")>>)
UnknownCall == Response("", <<ToolCall("call_1", "no_such_tool", ArgsBratislava)>>)
BadArgs == Response("", <<ToolCall("call_1", "get_weather", "{city:")>>)
NoCity == Response("", <<ToolCall("call_1", "get_weather", "{}")>>)

\* What client.chat.completions.create may return to each script.
LLMResponses(p) ==
    IF p = "lesson_1"
    THEN {PlainAnswer, OneCall, TwoCalls, UnknownCall, BadArgs, NoCity}
    ELSE {PlainAnswer, OneCall, TwoCalls, BadArgs}

\* lesson_1: available_functions
available_functions == {"get_weather"}

\* lesson_2: the tools the MCP server behind the stdio session registers.
ServerTools == {"get_weather"}

\* lesson_2: the MCP server's answer to call_tool(name): a registered tool
\* answers with a structured payload, an unknown name with an error part.
ServerResponse(name) ==
    IF name \in ServerTools
    THEN [structuredContent |-> "{\"temperature\": 21}", content |-> <<TextPart("21")>>]
    ELSE [structuredContent |-> "None", content |-> <<TextPart("Unknown tool")>>]

SystemMessage == [role |-> "system", name |-> "", content |-> <<"You are a helpful AI assistant. ">>,
                  tool_calls |-> <<>>]
UserMessage == [role |-> "user", name |-> "", content |-> <<"What is the current weather in Bratislava?">>,
                tool_calls |-> <<>>]

\* The response_message object as it sits in the conversation.
AssistantMessage(r) ==
    [role |-> "assistant", name |-> "",
     content |-> IF r.content = "" THEN <<>> ELSE <<r.content>>,
     tool_calls |-> r.tool_calls]

ToolMessage(function_name, tool_content) ==
    [role |-> "tool", name |-> function_name, content |-> tool_content, tool_calls |-> <<>>]

(***************************************************************************)
(* lesson_2: mcp_tool_response_to_text                                     *)
(***************************************************************************)
RECURSIVE join_parts(_)
\* txt = getattr(p, "text", None); parts.append(txt if txt is not None else str(p))
join_parts(content) ==
    IF content = <<>> THEN <<>>
    ELSE <<IF Head(content).text # "NoAttr" THEN Head(content).text ELSE "str(part)">>
         \o join_parts(Tail(content))

\* Texts are lists of lines; the structured payload, when present, is dumped
\* as one JSON text and the content parts are ignored.
mcp_tool_response_to_text(resp) ==
    IF resp.structuredContent # "None"
    THEN <<resp.structuredContent>>
    ELSE join_parts(resp.content)

(***************************************************************************)
(* JSON texts of tool-call arguments                                       *)
(***************************************************************************)
\* A JSON value as Python holds it: a str (its characters), an int, True,
\* False, None, a list (its items) or a dict (its <<key, value>> items in
\* insertion order).  A text is the sequence of its characters.
JsonValue(type, chars, num, items) ==
    [type |-> type, chars |-> chars, num |-> num, items |-> items]

JsonNone == JsonValue("null", <<>>, 0, <<>>)

DigitChars == <<"0", "1", "2", "3", "4", "5", "6", "7", "8", "9">>

\* Variant of the string encoder that writes every character as it is.
escape_nothing(c) == <<c>>

\* json.dumps, ensure_ascii=True: the escape of one character of a str.
escape(c) ==
    CASE c = "\"" -> <<"\\", "\"">>
      [] c = "\\" -> <<"\\", "\\">>
      [] c = "\n" -> <<"\\", "n">>
      [] c = "é" -> <<"\\", "u", "0", "0", "e", "9">>
      [] OTHER -> <<c>>

RECURSIVE encode_string(_)
encode_string(chars) ==
    IF chars = <<>> THEN <<>>
    ELSE escape(Head(chars)) \o encode_string(Tail(chars))

RECURSIVE encode_int(_)
encode_int(n) ==
    IF n < 0 THEN <<"-">> \o encode_int(-n)
    ELSE IF n < 10 THEN <<DigitChars[n + 1]>>
    ELSE encode_int(n \div 10) \o <<DigitChars[(n % 10) + 1]>>

RECURSIVE dumps(_)
RECURSIVE dumps_items(_, _)
\* json.dumps(obj) with the default separators ', ' and ': '.
dumps(obj) ==
    CASE obj.type = "str" -> <<"\"">> \o encode_string(obj.chars) \o <<"\"">>
      [] obj.type = "int" -> encode_int(obj.num)
      [] obj.type = "true" -> <<"t", "r", "u", "e">>
      [] obj.type = "false" -> <<"f", "a", "l", "s", "e">>
      [] obj.type = "null" -> <<"n", "u", "l", "l">>
      [] obj.type = "list" -> <<"[">> \o dumps_items(obj.items, FALSE) \o <<"]">>
      [] obj.type = "dict" -> <<"{">> \o dumps_items(obj.items, TRUE) \o <<"}">>

dumps_items(items, keyed) ==
    IF items = <<>> THEN <<>>
    ELSE LET item == IF keyed
                     THEN <<"\"">> \o encode_string(items[1][1]) \o
                          <<"\"", ":", " ">> \o dumps(items[1][2])
                     ELSE dumps(items[1])
         IN  IF Len(items) = 1 THEN item
             ELSE item \o <<",", " ">> \o dumps_items(Tail(items), keyed)

\* What the scanner of json.loads gives at a position: a value and the
\* text after it, or a JSONDecodeError.
Scanned(ok, value, rest) == [ok |-> ok, value |-> value, rest |-> rest]

JSONDecodeError == Scanned(FALSE, JsonNone, <<>>)

RECURSIVE skip_whitespace(_)
skip_whitespace(text) ==
    IF text # <<>> /\ Head(text) \in {" ", "\t", "\n", "\r"}
    THEN skip_whitespace(Tail(text))
    ELSE text

starts_with(text, prefix) ==
    Len(text) >= Len(prefix) /\ SubSeq(text, 1, Len(prefix)) = prefix

drop(text, n) == SubSeq(text, n + 1, Len(text))

RECURSIVE scan_string(_, _)
\* The characters after an opening quote, up to the closing quote.
scan_string(text, chars) ==
    IF text = <<>> THEN JSONDecodeError
    ELSE IF Head(text) = "\"" THEN
        Scanned(TRUE, JsonValue("str", chars, 0, <<>>), Tail(text))
    ELSE IF Head(text) = "\\" THEN
        IF Len(text) < 2 THEN JSONDecodeError
        ELSE IF text[2] \in {"\"", "\\", "/"}
        THEN scan_string(drop(text, 2), Append(chars, text[2]))
        ELSE IF text[2] = "n"
        THEN scan_string(drop(text, 2), Append(chars, "\n"))
        ELSE IF starts_with(text, <<"\\", "u", "0", "0", "e", "9">>)
        THEN scan_string(drop(text, 6), Append(chars, "é"))
        ELSE JSONDecodeError
    ELSE IF Head(text) \in {"\n", "\t", "\r"} THEN JSONDecodeError
    ELSE scan_string(Tail(text), Append(chars, Head(text)))

RECURSIVE scan_digits(_, _)
\* The digits of an integer, most significant first.
scan_digits(text, n) ==
    IF text # <<>> /\ Head(text) \in Range(DigitChars)
    THEN scan_digits(Tail(text),
            10 * n + (CHOOSE d \in 0..9 : DigitChars[d + 1] = Head(text)))
    ELSE Scanned(TRUE, JsonValue("int", <<>>, n, <<>>), text)

\* -?(0|[1-9][0-9]*)
scan_number(text) ==
    LET negative == Head(text) = "-"
        digits == IF negative THEN Tail(text) ELSE text
    IN  IF digits = <<>> \/ Head(digits) \notin Range(DigitChars)
        THEN JSONDecodeError
        ELSE LET s == IF Head(digits) = "0"
                      THEN Scanned(TRUE, JsonValue("int", <<>>, 0, <<>>),
                                   Tail(digits))
                      ELSE scan_digits(digits, 0)
             IN  IF negative
                 THEN [s EXCEPT !.value.num = -s.value.num]
                 ELSE s

\* d[key] = value: a key that is present keeps its place.
dict_set(items, key, value) ==
    IF \E i \in 1..Len(items) : items[i][1] = key
    THEN [i \in 1..Len(items) |->
            IF items[i][1] = key THEN <<key, value>> ELSE items[i]]
    ELSE Append(items, <<key, value>>)

RECURSIVE scan_once(_)
RECURSIVE scan_items(_, _, _)
\* The value that starts at the head of the text, after whitespace.
scan_once(text0) ==
    LET text == skip_whitespace(text0)
    IN  IF text = <<>> THEN JSONDecodeError
        ELSE IF Head(text) = "\"" THEN scan_string(Tail(text), <<>>)
        ELSE IF Head(text) = "{" THEN
            IF starts_with(skip_whitespace(Tail(text)), <<"}">>)
            THEN Scanned(TRUE, JsonValue("dict", <<>>, 0, <<>>),
                         Tail(skip_whitespace(Tail(text))))
            ELSE scan_items(Tail(text), TRUE, <<>>)
        ELSE IF Head(text) = "[" THEN
            IF starts_with(skip_whitespace(Tail(text)), <<"]">>)
            THEN Scanned(TRUE, JsonValue("list", <<>>, 0, <<>>),
                         Tail(skip_whitespace(Tail(text))))
            ELSE scan_items(Tail(text), FALSE, <<>>)
        ELSE IF Head(text) \in Range(DigitChars) \cup {"-"}
        THEN scan_number(text)
        ELSE IF starts_with(text, <<"t", "r", "u", "e">>)
        THEN Scanned(TRUE, JsonValue("true", <<>>, 0, <<>>), drop(text, 4))
        ELSE IF starts_with(text, <<"f", "a", "l", "s", "e">>)
        THEN Scanned(TRUE, JsonValue("false", <<>>, 0, <<>>), drop(text, 5))
        ELSE IF starts_with(text, <<"n", "u", "l", "l">>)
        THEN Scanned(TRUE, JsonNone, drop(text, 4))
        ELSE JSONDecodeError

\* The members of an object (keyed) or the items of an array, from the
\* first one to the closing bracket.
scan_items(text0, keyed, items) ==
    LET text == skip_whitespace(text0)
        key == IF keyed /\ starts_with(text, <<"\"">>)
               THEN scan_string(Tail(text), <<>>)
               ELSE JSONDecodeError
        colon == skip_whitespace(key.rest)
        item == IF ~keyed THEN scan_once(text)
                ELSE IF key.ok /\ starts_with(colon, <<":">>)
                THEN scan_once(Tail(colon))
                ELSE JSONDecodeError
        after == skip_whitespace(item.rest)
        now_items == IF keyed THEN dict_set(items, key.value.chars, item.value)
                     ELSE Append(items, item.value)
    IN  IF ~item.ok \/ after = <<>> THEN JSONDecodeError
        ELSE IF Head(after) = ","
        THEN scan_items(Tail(after), keyed, now_items)
        ELSE IF Head(after) = (IF keyed THEN "}" ELSE "]")
        THEN Scanned(TRUE,
                     JsonValue(IF keyed THEN "dict" ELSE "list", <<>>, 0,
                               now_items),
                     Tail(after))
        ELSE JSONDecodeError

\* json.loads(text): one value, and nothing but whitespace after it.
loads(text) ==
    LET s == scan_once(text)
    IN  IF s.ok /\ skip_whitespace(s.rest) = <<>>
        THEN Scanned(TRUE, s.value, <<>>)
        ELSE JSONDecodeError

\* The texts that occur as tool-call arguments and inside them, and the
\* characters each is made of.
ArgumentTexts == {ArgsBratislava, "{}", "{city:", "", "city", "Bratislava"}

characters(text) ==
    CASE text = ArgsBratislava ->
            <<"{", "\"", "c", "i", "t", "y", "\"", ":", " ",
              "\"", "B", "r", "a", "t", "i", "s", "l", "a", "v", "a", "\"", "}">>
      [] text = "{}" -> <<"{", "}">>
      [] text = "{city:" -> <<"{", "c", "i", "t", "y", ":">>
      [] text = "city" -> <<"c", "i", "t", "y">>
      [] text = "Bratislava" ->
            <<"B", "r", "a", "t", "i", "s", "l", "a", "v", "a">>
      [] OTHER -> <<>>

as_text(chars) == CHOOSE text \in ArgumentTexts : characters(text) = chars

\* Argument texts json.loads accepts; every other text raises JSONDecodeError.
ValidJson == {text \in ArgumentTexts : loads(characters(text)).ok}

\* json.loads on the argument texts the LLM produces: a mapping as a list
\* of key/value pairs.  Callers test membership in ValidJson first.
json_loads(text) ==
    LET s == loads(characters(text))
    IN  IF s.ok /\ s.value.type = "dict"
        THEN [i \in 1..Len(s.value.items) |->
                <<as_text(s.value.items[i][1]),
                  as_text(s.value.items[i][2].chars)>>]
        ELSE <<>>

\* json.dumps of a mapping of texts, with the default separators.
json_dumps(value) ==
    as_text(dumps(JsonValue("dict", <<>>, 0,
        [i \in 1..Len(value) |->
            <<characters(value[i][1]),
              JsonValue("str", characters(value[i][2]), 0, <<>>)>>])))

(***************************************************************************)
(* lesson_2: Agent.run (the ReAct loop)                                    *)
(***************************************************************************)
Returned(kind, message) == [kind |-> kind, message |-> message]

\* Variant of the branch test that takes every response for a tool request.
has_tool_calls_always(r) == TRUE

\* if response_message.tool_calls:
has_tool_calls(r) == r.tool_calls # <<>>

\* while iteration < self.max_iterations:
loop_continues(i) == i < max_iterations

\* Variant of the for-loop that stops after the first tool call.
more_tool_calls_first_only(i, tool_calls) == FALSE

\* for tool_call in response_message.tool_calls: is there an element after
\* position i?
more_tool_calls(i, tool_calls) == i < Len(tool_calls)

\* Variant of the append that overwrites the newest message.
append_message_over_last(msgs, message) ==
    IF msgs = <<>> THEN <<message>>
    ELSE Append(SubSeq(msgs, 1, Len(msgs) - 1), message)

\* messages.append(message)
append_message(msgs, message) == Append(msgs, message)

\* async with stdio_client(...), ClientSession(...): initialize(), list_tools()
L2_Setup ==
    /\ prog = "lesson_2" /\ pc = "start"
    /\ \/ pc' = "loop" /\ exc' = exc
       \/ pc' = "raised" /\ exc' = "ConnectionError"
    /\ UNCHANGED <<iteration, messages, response_message, tc_index, result,
                   llm_log, dispatch_log, prog>>
    /\ UNCHANGED notAgentVars

\* One pass of the while body up to the branch on tool_calls: the LLM call,
\* then either the assistant message and the for-loop, or the final message
\* and the return.
L2_LLMCall ==
    /\ prog = "lesson_2" /\ pc = "loop"
    /\ loop_continues(iteration)
    /\ iteration' = iteration + 1
    /\ \/ \* the LLM backend cannot be reached: the exception propagates
          /\ llm_log' = Append(llm_log, Response("<raised>", <<>>))
          /\ pc' = "raised" /\ exc' = "LLMError"
          /\ UNCHANGED <<messages, response_message, tc_index, result>>
       \/ \E r \in LLMResponses(prog) :
          /\ llm_log' = Append(llm_log, r)
          /\ response_message' = r
          /\ messages' = append_message(messages, AssistantMessage(r))
          /\ exc' = exc
          /\ IF has_tool_calls(r)
             THEN /\ pc' = IF r.tool_calls = <<>> THEN "loop" ELSE "dispatch"
                  /\ tc_index' = 1
                  /\ result' = result
             ELSE /\ pc' = "returned"
                  /\ tc_index' = tc_index
                  /\ result' = Returned("message", r)
    /\ UNCHANGED <<dispatch_log, prog>>
    /\ UNCHANGED notAgentVars

\* One pass of "for tool_call in response_message.tool_calls": parse the
\* arguments, await session.call_tool, flatten, append the tool message.
\* Neither json.loads nor the awaited call is inside a try block.
L2_Dispatch ==
    /\ prog = "lesson_2" /\ pc = "dispatch"
    /\ LET tool_call     == response_message.tool_calls[tc_index]
           function_name == tool_call.name
           text          == IF tool_call.arguments = "" THEN "{}" ELSE tool_call.arguments
           more          == more_tool_calls(tc_index, response_message.tool_calls)
       IN  IF text \notin ValidJson
           THEN /\ pc' = "raised" /\ exc' = "JSONDecodeError"
                /\ dispatch_log' = Append(dispatch_log,
                        [name |-> function_name, outcome |-> "JSONDecodeError"])
                /\ UNCHANGED <<messages, tc_index>>
           ELSE \/ \* the awaited session.call_tool raises
                   /\ pc' = "raised" /\ exc' = "ToolCallError"
                   /\ dispatch_log' = Append(dispatch_log,
                        [name |-> function_name, outcome |-> "raised"])
                   /\ UNCHANGED <<messages, tc_index>>
                \/ /\ messages' = append_message(messages,
                        ToolMessage(function_name,
                                    mcp_tool_response_to_text(ServerResponse(function_name))))
                   /\ dispatch_log' = Append(dispatch_log,
                        [name |-> function_name,
                         outcome |-> IF function_name \in ServerTools THEN "ok"
                                     ELSE "error_result"])
                   /\ tc_index' = IF more THEN tc_index + 1 ELSE tc_index
                   /\ pc' = IF more THEN "dispatch" ELSE "loop"
                   /\ exc' = exc
    /\ UNCHANGED <<iteration, response_message, result, llm_log, prog>>
    /\ UNCHANGED notAgentVars

\* The while condition fails: return "Something is wrong sorry no sorry"
L2_LoopExit ==
    /\ prog = "lesson_2" /\ pc = "loop"
    /\ ~loop_continues(iteration)
    /\ result' = Returned("sentinel", Response(SENTINEL, <<>>))
    /\ pc' = "returned"
    /\ UNCHANGED <<iteration, messages, response_message, tc_index, exc,
                   llm_log, dispatch_log, prog>>
    /\ UNCHANGED notAgentVars

(***************************************************************************)
(* lesson_1: Agent.run (single shot)                                       *)
(***************************************************************************)
\* function_to_call = available_functions[function_name]
lookup_function(function_name) ==
    IF function_name \in available_functions THEN "found" ELSE "KeyError"

\* The first client.chat.completions.create and the branch on tool_calls.
L1_FirstCall ==
    /\ prog = "lesson_1" /\ pc = "start"
    /\ \/ /\ llm_log' = Append(llm_log, Response("<raised>", <<>>))
          /\ pc' = "raised" /\ exc' = "LLMError"
          /\ UNCHANGED <<response_message, result>>
       \/ \E r \in LLMResponses(prog) :
          /\ llm_log' = Append(llm_log, r)
          /\ response_message' = r
          /\ exc' = exc
          /\ IF has_tool_calls(r)
             THEN pc' = "dispatch" /\ result' = result
             ELSE pc' = "returned" /\ result' = Returned("sentinel", Response(SENTINEL, <<>>))
    /\ UNCHANGED <<iteration, messages, tc_index, dispatch_log, prog>>
    /\ UNCHANGED notAgentVars

\* tool_calls[0] only: json.loads, the lookup in available_functions, the
\* call, then the two appended messages.
L1_Dispatch ==
    /\ prog = "lesson_1" /\ pc = "dispatch"
    /\ LET tool_call     == response_message.tool_calls[1]
           function_name == tool_call.name
           function_args == json_loads(tool_call.arguments)
           Fail(e) == /\ pc' = "raised" /\ exc' = e
                      /\ dispatch_log' = Append(dispatch_log,
                              [name |-> function_name, outcome |-> e])
                      /\ UNCHANGED messages
       IN  IF tool_call.arguments \notin ValidJson THEN Fail("JSONDecodeError")
           ELSE IF lookup_function(function_name) = "KeyError" THEN Fail("KeyError")
           ELSE IF function_args = <<>> THEN Fail("TypeError")
           ELSE \/ Fail("raised")
                \/ /\ messages' = append_message(
                        append_message(messages,
                          [role |-> "assistant", name |-> "", content |-> <<>>,
                           tool_calls |-> <<ToolCall("", function_name, json_dumps(function_args))>>]),
                        ToolMessage(function_name,
                                    <<"{\"city\": \"Bratislava\", \"Temperature\": 21}">>))
                   /\ dispatch_log' = Append(dispatch_log,
                        [name |-> function_name, outcome |-> "ok"])
                   /\ pc' = "second_llm" /\ exc' = exc
    /\ UNCHANGED <<iteration, response_message, tc_index, result, llm_log, prog>>
    /\ UNCHANGED notAgentVars

\* The second client.chat.completions.create; its message is returned as is.
L1_SecondCall ==
    /\ prog = "lesson_1" /\ pc = "second_llm"
    /\ \/ /\ llm_log' = Append(llm_log, Response("<raised>", <<>>))
          /\ pc' = "raised" /\ exc' = "LLMError"
          /\ UNCHANGED result
       \/ \E r \in LLMResponses(prog) :
          /\ llm_log' = Append(llm_log, r)
          /\ result' = Returned("message", r)
          /\ pc' = "returned" /\ exc' = exc
    /\ UNCHANGED <<iteration, messages, response_message, tc_index, dispatch_log, prog>>
    /\ UNCHANGED notAgentVars

(***************************************************************************)
(* Specification of the agents                                             *)
(***************************************************************************)
\* main(): a fresh Agent and the two-message conversation handed to run().
InitAgent ==
    /\ RouterInit /\ AdapterIdle /\ FlattenIdle /\ DbIdle
    /\ prog \in {"lesson_1", "lesson_2"}
    /\ pc = "start"
    /\ iteration = 0
    /\ messages = <<SystemMessage, UserMessage>>
    /\ response_message = NoResponse
    /\ tc_index = 0
    /\ result = Returned("none", NoResponse)
    /\ exc = "none"
    /\ llm_log = <<>>
    /\ dispatch_log = <<>>

NextAgent ==
    \/ L2_Setup \/ L2_LLMCall \/ L2_Dispatch \/ L2_LoopExit
    \/ L1_FirstCall \/ L1_Dispatch \/ L1_SecondCall

SpecAgent == InitAgent /\ [][NextAgent]_vars

(***************************************************************************)
(* LLM backend: what POST /api/chat gives the adapters                     *)
(***************************************************************************)
\* A member that the JSON object does not have, and the JSON value null.
Absent == "<absent>"
Null == "<null>"

\* The "arguments" member of a tool call's function, by JSON type.
ArgAbsent == [type |-> "absent", text |-> "", pairs |-> <<>>]
ArgNull == [type |-> "null", text |-> "", pairs |-> <<>>]
ArgList == [type |-> "list", text |-> "", pairs |-> <<>>]
ArgDict(pairs) == [type |-> "dict", text |-> "", pairs |-> pairs]
ArgStr(text) == [type |-> "str", text |-> text, pairs |-> <<>>]

BackendArguments ==
    {ArgAbsent, ArgNull, ArgList, ArgDict(<<<<"city", "Bratislava">>>>),
     ArgStr(ArgsBratislava), ArgStr("{city:")}

BackendToolCall(id, name, arguments) ==
    [id |-> id, function |-> [name |-> name, arguments |-> arguments]]

BackendToolCalls ==
    {BackendToolCall(Absent, n, a) : n \in {"get_weather", "get_cached"},
                                     a \in BackendArguments}
    \cup {BackendToolCall("id_x", "get_weather", ArgDict(<<<<"city", "Bratislava">>>>)),
          BackendToolCall(Absent, Absent, ArgAbsent)}

\* The "message" member; an absent, null or empty tool_calls member is <<>>.
BackendMessage(content, thinking, tool_calls) ==
    [content |-> content, thinking |-> thinking, tool_calls |-> tool_calls]

EmptyMessage == BackendMessage(Absent, Absent, <<>>)

BackendMessages ==
    {BackendMessage(c, t, tcs) :
        c \in {Absent, Null, "", "answer"},
        t \in {Absent, "", "reasoning"},
        tcs \in UNION {[1..k -> BackendToolCalls] : k \in 0..MaxToolCalls}}

\* The decoded body: a JSON object whose "message" member is an object, is
\* some other value or is missing, or a JSON value that is not an object.
\* Its "done_reason" member is missing or one of the texts the backend
\* uses: the reply hit the token limit, or the model was only loaded.
Body(shape, message_shape, message, done_reason) ==
    [shape |-> shape, message_shape |-> message_shape, message |-> message,
     done_reason |-> done_reason]

DoneReasons == {Absent, "length", "load"}

Bodies ==
    {Body("object", "object", m, d) : m \in BackendMessages, d \in DoneReasons}
    \cup {Body("object", "absent", EmptyMessage, Absent),
          Body("object", "string", EmptyMessage, Absent),
          Body("array", "absent", EmptyMessage, Absent)}

\* client.post(...), response.raise_for_status(), response.json()
Http(kind, body) == [kind |-> kind, body |-> body]

HttpOutcomes ==
    {Http(k, Body("none", "absent", EmptyMessage, Absent)) :
        k \in {"connect_error", "http_status", "invalid_json"}}
    \cup {Http("json", b) : b \in Bodies}

\* What a client's call gives: the assistant message and finish reason of
\* the ChatCompletion's one choice, or the exception raised.
Completion(kind, message, finish_reason) ==
    [kind |-> kind, message |-> message, finish_reason |-> finish_reason]

Raised(exception) == Completion(exception, NoResponse, "None")

Pending == Completion("pending", NoResponse, "None")

(***************************************************************************)
(* OllamaClient / LLMClient: conversion to the OpenAI format               *)
(***************************************************************************)
\* dict.get(key, default)
get(value, default) == IF value = Absent THEN default ELSE value

\* Truth value of None, "" and a non-empty text.
truthy(value) == value \notin {Null, ""}

\* Variant of the content policy that never looks at the thinking text.
surfaced_content_ignoring_thinking(content, thinking) == content

\* if not content and thinking: content = thinking
surfaced_content(content, thinking) ==
    IF ~truthy(content) /\ truthy(thinking) THEN thinking ELSE content

\* content=content if content else None
content_or_None(content) == IF truthy(content) THEN content ELSE "None"

\* arguments = func.get("arguments", {})
\* if isinstance(arguments, dict): arguments = json.dumps(arguments)
convert_arguments(a) ==
    LET arguments == IF a.type = "absent" THEN ArgDict(<<>>) ELSE a
    IN  IF arguments.type = "dict" THEN ArgStr(json_dumps(arguments.pairs))
        ELSE arguments

\* Function(name=..., arguments=arguments): the field is declared str, any
\* other value fails the validation of the model class.
Function_validates(arguments) == arguments.type = "str"

\* f"call_{i}"
call_id(i) == <<"call_0", "call_1", "call_2", "call_3">>[i + 1]

\* Choice(finish_reason=...): the field is declared as one of five texts,
\* any other value fails the validation of the model class.
Choice_validates(finish_reason) ==
    finish_reason \in {"stop", "length", "tool_calls", "content_filter",
                       "function_call"}

\* Choice(index=0, message=chat_message,
\*        finish_reason=ollama_response.get("done_reason", "stop"))
Choice(message, ollama_response) ==
    LET finish_reason == get(ollama_response.done_reason, "stop")
    IN  IF Choice_validates(finish_reason)
        THEN Completion("response", message, finish_reason)
        ELSE Raised("ValidationError")

Converted(raised, tool_calls) == [raised |-> raised, tool_calls |-> tool_calls]

RECURSIVE convert_enumerated(_, _, _)
\* for i, tc in enumerate(ollama_tool_calls): ... tool_calls.append(...)
convert_enumerated(i, rest, tool_calls) ==
    IF rest = <<>> THEN Converted("none", tool_calls)
    ELSE LET tc        == Head(rest)
             func      == tc.function
             arguments == convert_arguments(func.arguments)
         IN  IF ~Function_validates(arguments)
             THEN Converted("ValidationError", <<>>)
             ELSE convert_enumerated(i + 1, Tail(rest),
                     Append(tool_calls,
                            ToolCall(get(tc.id, call_id(i)), get(func.name, ""),
                                     arguments.text)))

\* OllamaClient._convert_tool_calls: None (here <<>>) for an empty list.
_convert_tool_calls(ollama_tool_calls) ==
    IF ollama_tool_calls = <<>> THEN Converted("none", <<>>)
    ELSE convert_enumerated(0, ollama_tool_calls, <<>>)

\* OllamaClient._to_openai_format
_to_openai_format(ollama_response) ==
    IF ollama_response.shape # "object" \/ ollama_response.message_shape = "string"
    THEN Raised("AttributeError")
    ELSE LET message    == ollama_response.message
             content    == get(message.content, "")
             thinking   == get(message.thinking, "")
             tool_calls == _convert_tool_calls(message.tool_calls)
         IN  IF tool_calls.raised # "none" THEN Raised(tool_calls.raised)
             ELSE Choice(Response(content_or_None(surfaced_content(content, thinking)),
                                  tool_calls.tool_calls),
                         ollama_response)

\* Variant of the generated id that does not count the calls converted.
next_call_id_constant(tool_calls) == call_id(0)

\* f"call_{len(tool_calls)}"
next_call_id(tool_calls) == call_id(Len(tool_calls))

RECURSIVE convert_appending(_, _)
\* for tc in ollama_tool_calls: ... id=tc.get("id", f"call_{len(tool_calls)}")
convert_appending(rest, tool_calls) ==
    IF rest = <<>> THEN Converted("none", tool_calls)
    ELSE LET tc        == Head(rest)
             func      == tc.function
             arguments == convert_arguments(func.arguments)
         IN  IF ~Function_validates(arguments)
             THEN Converted("ValidationError", <<>>)
             ELSE convert_appending(Tail(rest),
                     Append(tool_calls,
                            ToolCall(get(tc.id, next_call_id(tool_calls)),
                                     get(func.name, ""), arguments.text)))

\* LLMClient._convert_ollama_to_openai
_convert_ollama_to_openai(ollama_response) ==
    IF ollama_response.shape # "object" \/ ollama_response.message_shape = "string"
    THEN Raised("AttributeError")
    ELSE LET message    == ollama_response.message
             content    == get(message.content, "")
             thinking   == get(message.thinking, "")
             tool_calls == IF message.tool_calls # <<>>
                           THEN convert_appending(message.tool_calls, <<>>)
                           ELSE Converted("none", <<>>)
         IN  IF tool_calls.raised # "none" THEN Raised(tool_calls.raised)
             ELSE Choice(Response(content_or_None(surfaced_content(content, thinking)),
                                  tool_calls.tool_calls),
                         ollama_response)

(***************************************************************************)
(* OllamaClient.call / LLMClient.call                                      *)
(***************************************************************************)
\* OllamaClient.call: ConnectError becomes ConnectionError, every other
\* exception of the try block becomes RuntimeError.
OllamaClient_call(h) ==
    CASE h.kind = "connect_error" -> Raised("ConnectionError")
      [] h.kind = "http_status"   -> Raised("RuntimeError")
      [] h.kind = "invalid_json"  -> Raised("RuntimeError")
      [] OTHER -> LET r == _to_openai_format(h.body)
                  IN  IF r.kind = "response" THEN r ELSE Raised("RuntimeError")

\* LLMClient._call_ollama_direct: the except branch logs and re-raises.
_call_ollama_direct(h) ==
    CASE h.kind = "connect_error" -> Raised("httpx.ConnectError")
      [] h.kind = "http_status"   -> Raised("httpx.HTTPStatusError")
      [] h.kind = "invalid_json"  -> Raised("json.JSONDecodeError")
      [] OTHER -> _convert_ollama_to_openai(h.body)

\* await OllamaClient(...).call(messages, tools=tools)
OllamaCall ==
    /\ completion.OllamaClient = Pending
    /\ completion' = [completion EXCEPT !.OllamaClient = OllamaClient_call(http)]
    /\ UNCHANGED http
    /\ UNCHANGED notAdapterVars

\* await LLMClient(use_direct_ollama=True).call(messages, tools=tools)
LLMCall ==
    /\ completion.LLMClient = Pending
    /\ completion' = [completion EXCEPT !.LLMClient = _call_ollama_direct(http)]
    /\ UNCHANGED http
    /\ UNCHANGED notAdapterVars

\* Both clients constructed, one exchange with the backend ahead of each.
InitAdapter ==
    /\ RouterInit /\ AgentIdle /\ FlattenIdle /\ DbIdle
    /\ http \in HttpOutcomes
    /\ completion = [OllamaClient |-> Pending, LLMClient |-> Pending]

NextAdapter == OllamaCall \/ LLMCall

SpecAdapter == InitAdapter /\ [][NextAdapter]_vars

(***************************************************************************)
(* Flattening of a tool response: the router's and lesson_2's              *)
(***************************************************************************)
\* The responses session.call_tool may return: with or without structured
\* payload, and up to MaxParts content parts, text or other.
ToolResponses ==
    {[structuredContent |-> sc, content |-> c] :
        sc \in {"None", "{\"temperature\": 21}"},
        c \in UNION {[1..k -> {TextPart("r1"), TextPart("r2"), OtherPart}] :
                        k \in 0..MaxParts}}

NotFlattened == <<"<pending>">>

\* MultiMCPClient.call_tool from the response of the remote call on.
RouterFlatten ==
    /\ flattened.router = NotFlattened
    /\ flattened' = [flattened EXCEPT !.router = call_tool_text(tool_response)]
    /\ UNCHANGED tool_response
    /\ UNCHANGED notFlattenVars

\* lesson_2: tool_content = mcp_tool_response_to_text(tool_resp)
AgentFlatten ==
    /\ flattened.lesson_2 = NotFlattened
    /\ flattened' = [flattened EXCEPT !.lesson_2 = mcp_tool_response_to_text(tool_response)]
    /\ UNCHANGED tool_response
    /\ UNCHANGED notFlattenVars

\* One response of a tool backend, handed to both implementations.
InitFlatten ==
    /\ RouterInit /\ AgentIdle /\ AdapterIdle /\ DbIdle
    /\ tool_response \in ToolResponses
    /\ flattened = [router |-> NotFlattened, lesson_2 |-> NotFlattened]

NextFlatten == RouterFlatten \/ AgentFlatten

SpecFlatten == InitFlatten /\ [][NextFlatten]_vars

(***************************************************************************)
(* Router: vocabulary of the properties                                    *)
(***************************************************************************)
\* Positions (in connection order) of the servers that are marked connected
\* and reported tool t in their latest successful connect.
Reporters(t) ==
    {i \in 1..Len(connections) :
        _connected[connections[i]] /\ t \in Range(tools[connections[i]])}

FirstReporter(t) == connections[CHOOSE i \in Reporters(t) : \A j \in Reporters(t) : i <= j]
LastReporter(t) == connections[CHOOSE i \in Reporters(t) : \A j \in Reporters(t) : i >= j]

Registered == {t \in ToolNames : get_server_for_tool(t) # "None"}

ErrorKinds == {"not_found", "not_connected", "call_error"}

C4_SingleOwnerRouting ==
    (connect_pc = 0 /\ last.op = "call_tool") =>
        (Cardinality(Reporters(last.tool)) = 1 =>
            last.calls = <<FirstReporter(last.tool)>>)

C4_Witness ==
    /\ connect_pc = 0
    /\ last.op = "call_tool"
    /\ Reporters(last.tool) = {2}
    /\ _connected["weather"] /\ tools["weather"] # <<>>
    /\ last.calls = <<"db">>

\* C6: call_tool never raises; a name without owner, a disconnected owner and
\* a raising remote call each give one error string, without retry.
C6_CallToolErrorStrings ==
    (connect_pc = 0 /\ last.op = "call_tool") =>
        /\ ~last.raised
        /\ Len(last.calls) <= 1
        /\ get_server_for_tool(last.tool) = "None" => last.kind = "not_found"
        /\ ( /\ get_server_for_tool(last.tool) # "None"
             /\ ~_connected[get_server_for_tool(last.tool)] )
           => last.kind \in ErrorKinds

\* C8: connect() attempts every configured source, and raises if and only if
\* no source ended up connected.
C8_ConnectRaisesIffNoneConnected ==
    last.op = "connect" =>
        /\ last.calls = connections
        /\ last.raised <=> (\A n \in ServerNames : ~_connected[n])

\* C9: after a completed connect() the registry holds exactly the tool names
\* reported in that call by the sources that connected.
C9_RegistryRebuiltOnConnect ==
    last.op = "connect" =>
        Registered = UNION {Range(tools[n]) : n \in {m \in ServerNames : _connected[m]}}

\* C10: a tool name resolves to an owner only while that owner is marked
\* connected; after disconnect() no tool name resolves to an owner.
C10_EntriesOnlyWhileConnected ==
    connect_pc = 0 =>
        /\ \A t \in Registered : _connected[get_server_for_tool(t)]
        /\ last.op = "disconnect" => Registered = {}

\* The servers whose conn.connect() raised in the connect() just completed:
\* conn.connect() ends with _connected set when it returns and cleared when
\* it raises.
FailedToConnect == {n \in ServerNames : ~_connected[n]}

\* C11: once connect() has finished, a connection whose conn.connect()
\* failed at any step is not connected, holds no session, and owns no tool
\* name in the routing map.
C11_FailedConnectLeavesNothing ==
    last.op = "connect" =>
        \A n \in FailedToConnect :
            /\ ~_connected[n]
            /\ session[n] = "None"
            /\ \A t \in ToolNames : get_server_for_tool(t) # n

\* The tool names of a list of OpenAI function entries, in order.
DefinitionNames(defs) == [i \in 1..Len(defs) |-> defs[i].function.name]

ConnectedServers == {n \in ServerNames : _connected[n]}

\* C14: get_tools_definitions() returns the descriptors of the tools of all
\* connected sources, each tool name at most once, also when two connected
\* sources report the same name.  (States in which a source that is not
\* connected still holds a session are left aside: they are the matter of
\* C15.)
C14_DefinitionsMergedWithoutDuplicates ==
    ( /\ last.op = "get_tools_definitions" /\ ~last.raised
      /\ \A n \in ServerNames : session[n] # "None" => _connected[n] )
    => LET names == DefinitionNames(last.defs)
       IN  /\ \A i, j \in 1..Len(names) : i # j => names[i] # names[j]
           /\ Range(names) = UNION {Range(tools[n]) : n \in ConnectedServers}

\* C15: list_tools() and get_tools_definitions() query connected sources
\* only, so that a source that is not connected contributes nothing and
\* cannot make the listing fail.
C15_ListingQueriesConnectedOnly ==
    last.op \in {"list_tools", "get_tools_definitions"} =>
        \A i \in 1..Len(last.calls) : _connected[last.calls[i]]

\* C16: disconnect() does not raise and leaves every connection marked
\* disconnected and without session; a disconnect() that follows a
\* disconnect(), or that no successful connect() preceded, finds that state
\* already and changes nothing.
C16_DisconnectClosesEverything ==
    last.op = "disconnect" =>
        /\ ~last.raised
        /\ \A n \in ServerNames : ~_connected[n] /\ session[n] = "None"

(***************************************************************************)
(* Agents: vocabulary of the properties                                    *)
(***************************************************************************)
\* The entries of llm_log that are responses (not a failed LLM call).
IsResponse(r) == r.content # "<raised>"

RECURSIVE CallNames(_)
\* The tool names requested by a list of responses, in order.
CallNames(log) ==
    IF log = <<>> THEN <<>>
    ELSE [i \in 1..Len(Head(log).tool_calls) |-> Head(log).tool_calls[i].name]
         \o CallNames(Tail(log))

IsToolMessage(m) == m.role = "tool"

ToolMessages == SelectSeq(messages, IsToolMessage)

Finished == pc \in {"returned", "raised"}

RegisteredTools(p) == IF p = "lesson_1" THEN available_functions ELSE ServerTools

\* C1: the ReAct loop makes at most max_iterations LLM calls, and when every
\* LLM response carries a tool call the run ends after exactly
\* max_iterations LLM calls by returning the sentinel, never by raising.
\* (Runs in which the session setup or the tool backend itself failed are
\* left aside: what remains is decided by the LLM's responses alone.)
C1_CapThenSentinel ==
    prog = "lesson_2" =>
        /\ Len(llm_log) <= max_iterations
        /\ ( /\ Finished
             /\ exc \notin {"ConnectionError", "ToolCallError"}
             /\ \A i \in 1..Len(llm_log) :
                    IsResponse(llm_log[i]) /\ llm_log[i].tool_calls # <<>> )
           => ( /\ Len(llm_log) = max_iterations
                /\ result.kind = "sentinel"
                /\ exc = "none" )

\* C2: the first LLM response without tool calls (be it the first response
\* of the run) ends the loop: its message is appended last and returned, no
\* LLM call and no tool dispatch follows it.
C2_DoneOnFirstPlainResponse ==
    prog = "lesson_2" =>
        \A i \in 1..Len(llm_log) :
            (IsResponse(llm_log[i]) /\ llm_log[i].tool_calls = <<>>) =>
                /\ i = Len(llm_log)
                /\ iteration = i
                /\ pc = "returned"
                /\ exc = "none"
                /\ result = Returned("message", llm_log[i])
                /\ messages[Len(messages)] = AssistantMessage(llm_log[i])
                /\ Len(dispatch_log) = Len(CallNames(SubSeq(llm_log, 1, i - 1)))

C2_Witness ==
    /\ prog = "lesson_2"
    /\ pc = "returned"
    /\ Len(llm_log) = 1
    /\ result = Returned("message", PlainAnswer)
    /\ messages = <<SystemMessage, UserMessage, AssistantMessage(PlainAnswer)>>
    /\ dispatch_log = <<>>

\* C12: when the first k LLM responses (k < max_iterations) carry tool calls
\* and response k+1 carries none, the run has returned that response after
\* exactly k+1 LLM calls and exactly as many dispatches as tool calls were
\* returned, each of them completed; one tool call followed by a plain
\* response makes 2 LLM calls and 1 dispatch.
C12_KRoundsThenDone ==
    prog = "lesson_2" =>
        /\ \A k \in 0..(max_iterations - 1) :
              ( /\ Len(llm_log) >= k + 1
                /\ \A i \in 1..k : IsResponse(llm_log[i]) /\ llm_log[i].tool_calls # <<>>
                /\ IsResponse(llm_log[k + 1]) /\ llm_log[k + 1].tool_calls = <<>> )
              => ( /\ pc = "returned" /\ exc = "none"
                   /\ result = Returned("message", llm_log[k + 1])
                   /\ Len(llm_log) = k + 1
                   /\ Len(dispatch_log) = Len(CallNames(SubSeq(llm_log, 1, k)))
                   /\ \A j \in 1..Len(dispatch_log) :
                         /\ dispatch_log[j].outcome \in {"ok", "error_result"}
                         /\ dispatch_log[j].name = CallNames(llm_log)[j] )
        /\ llm_log = <<OneCall, PlainAnswer>>
              => (pc = "returned" /\ Len(llm_log) = 2 /\ Len(dispatch_log) = 1)

\* Nine rounds with tool calls (one of them with two), then a plain response
\* on the tenth and last round the cap allows.
C12_Witness ==
    /\ prog = "lesson_2" /\ pc = "returned"
    /\ Len(llm_log) = max_iterations
    /\ llm_log[1] = TwoCalls
    /\ \A i \in 2..(max_iterations - 1) : llm_log[i] = OneCall
    /\ llm_log[max_iterations] = PlainAnswer
    /\ result = Returned("message", PlainAnswer)
    /\ Len(dispatch_log) = max_iterations

\* C13: in the single-shot agent a first response with tool calls leads to
\* one dispatch (of its first tool call), one appended tool result, one more
\* LLM call, and the return of that second response whatever it carries:
\* 2 LLM calls and 1 dispatch.  (Runs in which the LLM backend or the tool
\* function itself failed are left aside: what remains is decided by the
\* LLM's responses alone.)
C13_SingleShotTwoCallsOneDispatch ==
    ( /\ prog = "lesson_1" /\ Finished
      /\ exc \notin {"LLMError", "raised"}
      /\ Len(llm_log) >= 1 /\ llm_log[1].tool_calls # <<>> )
    => ( /\ Len(llm_log) = 2
         /\ Len(dispatch_log) = 1
         /\ dispatch_log[1].name = llm_log[1].tool_calls[1].name
         /\ Len(ToolMessages) = 1
         /\ exc = "none"
         /\ result = Returned("message", llm_log[2]) )

\* C5: dispatching a tool call whose name is not registered gives an
\* error-result tool message and the run goes on; no exception escapes.
\* (Dispatches that fail on their argument text or on an unreachable backend
\* are left aside.)
C5_UnregisteredToolYieldsErrorMessage ==
    \A i \in 1..Len(dispatch_log) :
        ( /\ dispatch_log[i].name \notin RegisteredTools(prog)
          /\ dispatch_log[i].outcome \notin {"JSONDecodeError", "raised"} )
        => ( /\ dispatch_log[i].outcome = "error_result"
             /\ Len(ToolMessages) >= i
             /\ ToolMessages[i].name = dispatch_log[i].name )

\* C7: every tool call of a response is dispatched in the order returned and
\* leaves exactly one tool message tagged with its name, in that order,
\* whether the dispatch succeeded or failed.
C7_OneToolMessagePerCall ==
    prog = "lesson_2" =>
        /\ Len(ToolMessages) = Len(dispatch_log)
        /\ \A i \in 1..Len(dispatch_log) : ToolMessages[i].name = dispatch_log[i].name
        /\ pc \in {"loop", "returned"} =>
              [i \in 1..Len(dispatch_log) |-> dispatch_log[i].name] = CallNames(llm_log)

(***************************************************************************)
(* Adapters: vocabulary of the properties                                  *)
(***************************************************************************)
Clients == {"OllamaClient", "LLMClient"}

\* A text the backend sent that has at least one character.
NonEmpty(v) == v \notin {Absent, Null, ""}

Normal(cl) == completion[cl].kind = "response"

\* The tool calls the backend sent, in its order.
BackendCalls == http.body.message.tool_calls

\* C17: the normalized content is the backend's content when that is not
\* empty, the backend's thinking text when the content is empty and the
\* thinking text is not, and None exactly when both are empty, with or
\* without tool calls in the response.
C17_ContentOrThinking ==
    \A cl \in Clients :
        Normal(cl) =>
            LET c    == http.body.message.content
                t    == http.body.message.thinking
                norm == completion[cl].message.content
            IN  /\ NonEmpty(c) => norm = c
                /\ (~NonEmpty(c) /\ NonEmpty(t)) => norm = t
                /\ norm = "None" <=> (~NonEmpty(c) /\ ~NonEmpty(t))

\* Empty content, thinking text and two tool calls: both clients surface the
\* thinking text next to the converted tool calls.
C17_Witness ==
    /\ http.kind = "json"
    /\ http.body.message.content = ""
    /\ http.body.message.thinking = "reasoning"
    /\ Len(BackendCalls) = 2
    /\ \A cl \in Clients :
         /\ Normal(cl)
         /\ completion[cl].message.content = "reasoning"
         /\ Len(completion[cl].message.tool_calls) = 2

\* C18: in a normalized response every tool call carries JSON text as its
\* arguments, whatever the backend supplied, and the tool calls stand in the
\* backend's order.
C18_ArgumentsAreJsonText ==
    \A cl \in Clients :
        Normal(cl) =>
            LET tool_calls == completion[cl].message.tool_calls
            IN  /\ Len(tool_calls) = Len(BackendCalls)
                /\ \A i \in 1..Len(tool_calls) :
                     /\ tool_calls[i].arguments \in ValidJson
                     /\ tool_calls[i].name = get(BackendCalls[i].function.name, "")

UnreachableErrors == {"ConnectionError", "httpx.ConnectError"}

ProtocolErrors == {"RuntimeError", "httpx.HTTPStatusError", "json.JSONDecodeError",
                   "AttributeError", "ValidationError"}

\* A decoded body that is not an object with a "message" object in it.
MalformedBody ==
    /\ http.kind = "json"
    /\ (http.body.shape # "object" \/ http.body.message_shape # "object")

\* C19: the call fails with the unreachable error exactly when the backend
\* cannot be reached, with a protocol error distinct from it on an HTTP error
\* status, on invalid JSON and on a malformed body, and a malformed body
\* never gives a normal response.
C19_ErrorsByCause ==
    \A cl \in Clients :
        completion[cl] # Pending =>
            /\ completion[cl].kind \in UnreachableErrors <=> http.kind = "connect_error"
            /\ (http.kind \in {"http_status", "invalid_json"} \/ MalformedBody)
                   => completion[cl].kind \in ProtocolErrors
            /\ MalformedBody => ~Normal(cl)

(***************************************************************************)
(* Flattening: vocabulary of the properties                                *)
(***************************************************************************)
\* Every content part as a text, in order: a text part gives its text, any
\* other part its string form.
AllPartsAsText(content) ==
    [i \in 1..Len(content) |->
        IF content[i] = OtherPart THEN "str(part)" ELSE content[i].text]

\* C20: for every response of a tool backend the text call_tool returns is
\* the text mcp_tool_response_to_text makes of it: the structured payload
\* as JSON when there is one, else all content parts as text, in order.
C20_RouterFlattensLikeAgent ==
    /\ (flattened.router # NotFlattened /\ flattened.lesson_2 # NotFlattened)
          => flattened.router = flattened.lesson_2
    /\ flattened.router # NotFlattened
          => flattened.router =
                IF tool_response.structuredContent # "None"
                THEN <<tool_response.structuredContent>>
                ELSE AllPartsAsText(tool_response.content)


\* ======================================================================
\* Temperature cache: lesson_5/mcp_servers/db_server.py
\* ======================================================================
\* Time is counted in whole hours; NOW() of the database and datetime.now()
\* of the server are the one clock `now`.  Temperatures are integers in
\* thousandths of a degree, so that the DECIMAL(5,2) column can round them.

MaxTime == 1

today == "2026-11-06"
tomorrow == "2026-11-07"

\* LOWER() of SQL on the city names used here.
LOWER(city) ==
    CASE city = "Bratislava" -> "bratislava"
      [] city = "BRATISLAVA" -> "bratislava"
      [] city = "Kosice" -> "kosice"
      [] OTHER -> city

DbCities == {"Bratislava", "BRATISLAVA", "Kosice"}

\* The (city, weather_date) arguments the tools are called with; "None" is
\* an omitted weather_date.
CacheKeys ==
    {<<"Bratislava", "None">>, <<"BRATISLAVA", "None">>,
     <<"Bratislava", tomorrow>>, <<"Kosice", "None">>}

\* The latitude, longitude, temperature and weather arguments of a store.
Payload(latitude, longitude, temperature, weather) ==
    [latitude |-> latitude, longitude |-> longitude,
     temperature |-> temperature, weather |-> weather]

Payloads ==
    {Payload(48, 17, 21456, "Sunny"),
     Payload(49, 21, -3000, "None"),
     Payload(48, 17, 1000000, "Hot")}

CacheHours == {0, 1}

\* weather_date defaults to today's date.
default_date(weather_date) ==
    IF weather_date = "None" THEN today ELSE weather_date

\* Column temperature DECIMAL(5,2): rounded to hundredths, half away from zero.
DECIMAL_5_2(temperature) ==
    LET magnitude == IF temperature < 0 THEN -temperature ELSE temperature
        rounded == ((magnitude + 5) \div 10) * 10
    IN  IF temperature < 0 THEN -rounded ELSE rounded

\* A value DECIMAL(5,2) cannot hold makes the INSERT fail (strict SQL mode).
out_of_range(temperature) ==
    LET stored == DECIMAL_5_2(temperature)
    IN  stored > 999990 \/ stored < -999990

\* A row of table temperature_cache.
Row(city, weather_date, payload, fetched_at, expires_at) ==
    [city |-> city, weather_date |-> weather_date,
     latitude |-> payload.latitude, longitude |-> payload.longitude,
     temperature |-> DECIMAL_5_2(payload.temperature),
     weather |-> payload.weather,
     fetched_at |-> fetched_at, expires_at |-> expires_at]

\* UNIQUE KEY unique_city_date (city, weather_date); the city column has the
\* server's default collation, which compares without regard to case.
duplicate_key_case_sensitive(row, city, weather_date) ==
    row.city = city /\ row.weather_date = weather_date

duplicate_key(row, city, weather_date) ==
    LOWER(row.city) = LOWER(city) /\ row.weather_date = weather_date

\* expires_at > NOW() as is_valid
is_valid_inclusive(expires_at, clock) == expires_at >= clock

is_valid(expires_at, clock) == expires_at > clock

\* WHERE LOWER(city) = LOWER(%s) AND weather_date = %s
selected(city, weather_date) ==
    {row \in temperature_cache :
        LOWER(row.city) = LOWER(city) /\ row.weather_date = weather_date}

\* DELETE ... WHERE LOWER(city) = LOWER(%s)
delete_where_case_sensitive(row, city) == row.city = city

delete_where(row, city) == LOWER(row.city) = LOWER(city)

\* DELETE ... WHERE expires_at < NOW()
clear_where(row, clock) == row.expires_at < clock

\* INSERT ... ON DUPLICATE KEY UPDATE latitude, longitude, temperature,
\* weather, fetched_at, expires_at: the city of an existing row is kept.
upsert(table, city, weather_date, payload, expires_at) ==
    LET duplicates == {row \in table : duplicate_key(row, city, weather_date)}
    IN  IF duplicates = {}
        THEN table \cup {Row(city, weather_date, payload, now, expires_at)}
        ELSE (table \ duplicates) \cup
             {Row(row.city, weather_date, payload, now, expires_at) :
                 row \in duplicates}

\* Any failure of the pool, the connection or the statement is caught by the
\* tool's except clause: the first branch of each tool.
store_temperature ==
    /\ \/ /\ db_result' = [tool |-> "store_temperature", success |-> FALSE]
          /\ UNCHANGED temperature_cache
       \/ \E key \in CacheKeys, payload \in Payloads, cache_hours \in CacheHours :
            LET city == key[1]
                weather_date == default_date(key[2])
                expires_at == now + cache_hours
            IN  IF out_of_range(payload.temperature)
                THEN /\ db_result' = [tool |-> "store_temperature",
                                      success |-> FALSE]
                     /\ UNCHANGED temperature_cache
                ELSE /\ temperature_cache' =
                            upsert(temperature_cache, city, weather_date,
                                   payload, expires_at)
                     /\ db_result' = [tool |-> "store_temperature",
                                      success |-> TRUE, city |-> city,
                                      temperature |-> payload.temperature,
                                      weather |-> payload.weather,
                                      weather_date |-> weather_date,
                                      expires_at |-> expires_at]
    /\ UNCHANGED now
    /\ UNCHANGED notCacheVars

get_cached_temperature ==
    /\ \/ db_result' = [tool |-> "get_cached_temperature",
                        found |-> FALSE, reason |-> "error"]
       \/ \E key \in CacheKeys :
            LET city == key[1]
                weather_date == default_date(key[2])
                rows == selected(city, weather_date)
            IN  IF rows = {}
                THEN db_result' = [tool |-> "get_cached_temperature",
                                   found |-> FALSE, reason |-> "not_in_cache",
                                   city |-> city, weather_date |-> weather_date]
                ELSE \E row \in rows :
                        IF is_valid(row.expires_at, now)
                        THEN db_result' = [tool |-> "get_cached_temperature",
                                           found |-> TRUE, city |-> row.city,
                                           latitude |-> row.latitude,
                                           longitude |-> row.longitude,
                                           temperature |-> row.temperature,
                                           weather |-> row.weather,
                                           weather_date |-> row.weather_date,
                                           cached_at |-> row.fetched_at,
                                           expires_at |-> row.expires_at]
                        ELSE db_result' = [tool |-> "get_cached_temperature",
                                           found |-> FALSE,
                                           reason |-> "cache_expired",
                                           city |-> city,
                                           weather_date |-> weather_date,
                                           last_temperature |-> row.temperature]
    /\ UNCHANGED <<temperature_cache, now>>
    /\ UNCHANGED notCacheVars

delete_cached_temperature ==
    /\ \/ /\ db_result' = [tool |-> "delete_cached_temperature",
                           success |-> FALSE]
          /\ UNCHANGED temperature_cache
       \/ \E city \in DbCities :
            LET deleted == {row \in temperature_cache :
                                delete_where(row, city)}
            IN  /\ temperature_cache' = temperature_cache \ deleted
                /\ db_result' = [tool |-> "delete_cached_temperature",
                                 success |-> TRUE, city |-> city,
                                 deleted_count |-> Cardinality(deleted)]
    /\ UNCHANGED now
    /\ UNCHANGED notCacheVars

clear_expired_cache ==
    /\ \/ /\ db_result' = [tool |-> "clear_expired_cache", success |-> FALSE]
          /\ UNCHANGED temperature_cache
       \/ LET deleted == {row \in temperature_cache : clear_where(row, now)}
          IN  /\ temperature_cache' = temperature_cache \ deleted
              /\ db_result' = [tool |-> "clear_expired_cache",
                               success |-> TRUE,
                               deleted_count |-> Cardinality(deleted)]
    /\ UNCHANGED now
    /\ UNCHANGED notCacheVars

\* An hour passes between two tool calls.
Tick ==
    /\ now < MaxTime
    /\ now' = now + 1
    /\ UNCHANGED <<temperature_cache, db_result>>
    /\ UNCHANGED notCacheVars

InitCache ==
    /\ RouterInit /\ AgentIdle /\ AdapterIdle /\ FlattenIdle
    /\ PoolIdle /\ GraphIdle /\ JsonIdle /\ WorkflowIdle
    /\ CacheIdle

NextCache ==
    \/ store_temperature
    \/ get_cached_temperature
    \/ delete_cached_temperature
    \/ clear_expired_cache
    \/ Tick

SpecCache == InitCache /\ [][NextCache]_vars


\* ---- properties of the temperature cache ----

\* The rows a (city, weather_date) key names, in a given table.
Entries(table, city, weather_date) ==
    {row \in table :
        LOWER(row.city) = LOWER(city) /\ row.weather_date = weather_date}

OneEntryPerKey(table) ==
    \A r1, r2 \in table :
        (LOWER(r1.city) = LOWER(r2.city) /\ r1.weather_date = r2.weather_date)
            => r1 = r2

\* The last tool call was a store that succeeded.
Stored(res) == res.tool = "store_temperature" /\ res.success

\* C21: after every store, delete and clear the cache holds at most one entry
\* per (city, weather_date), city compared without regard to case; a store
\* whose key already has an entry adds no entry and leaves that entry with
\* the stored temperature, weather and expiry.
C21_OneEntryPerKey ==
    [][/\ OneEntryPerKey(temperature_cache')
       /\ (/\ Stored(db_result')
           /\ Entries(temperature_cache, db_result'.city,
                      db_result'.weather_date) # {})
          => /\ Cardinality(temperature_cache') =
                    Cardinality(temperature_cache)
             /\ \A row \in Entries(temperature_cache', db_result'.city,
                                   db_result'.weather_date) :
                    /\ row.temperature = DECIMAL_5_2(db_result'.temperature)
                    /\ row.weather = db_result'.weather
                    /\ row.expires_at = db_result'.expires_at]_vars

\* A store under another spelling of the city has replaced the payload of
\* the one entry of its key.
C21_Witness ==
    /\ Stored(db_result)
    /\ Cardinality(Entries(temperature_cache, db_result.city,
                           db_result.weather_date)) = 1
    /\ \E row \in temperature_cache :
        /\ row.city # db_result.city
        /\ LOWER(row.city) = LOWER(db_result.city)
        /\ row.weather_date = db_result.weather_date
        /\ row.temperature = DECIMAL_5_2(db_result.temperature)
        /\ row.temperature # db_result.temperature
        /\ row.expires_at = db_result.expires_at


\* A step of get_cached_temperature: the only action that leaves a result of
\* that tool without moving the clock.
GetStep == db_result'.tool = "get_cached_temperature" /\ now' = now

\* What a get result says: "found", or the reason of a miss.
Outcome(res) == IF res.found THEN "found" ELSE res.reason

\* The result carries the payload of the row.
CarriesPayload(res, row) ==
    /\ res.city = row.city
    /\ res.weather_date = row.weather_date
    /\ res.latitude = row.latitude
    /\ res.longitude = row.longitude
    /\ res.temperature = row.temperature
    /\ res.weather = row.weather
    /\ res.cached_at = row.fetched_at
    /\ res.expires_at = row.expires_at

\* C22: a get that the database answered returns found with the stored
\* payload iff the key has an entry whose expiry is later than now,
\* 'cache_expired' iff it has an entry whose expiry is not later than now,
\* and 'not_in_cache' iff it has no entry; a successful store leaves the
\* key's entry with the stored temperature and the expiry now + cache_hours,
\* so a get of that key is a hit until then and 'cache_expired' afterwards.
C22_GetTriState ==
    [][/\ (GetStep /\ Outcome(db_result') # "error") =>
            LET res == db_result'
                entries == Entries(temperature_cache, res.city,
                                   res.weather_date)
            IN  /\ Outcome(res) = "found" <=>
                        \E row \in entries : row.expires_at > now
                /\ Outcome(res) = "found" =>
                        \E row \in entries : CarriesPayload(res, row)
                /\ Outcome(res) = "cache_expired" <=>
                        \E row \in entries : ~(row.expires_at > now)
                /\ Outcome(res) = "cache_expired" =>
                        \E row \in entries :
                            res.last_temperature = row.temperature
                /\ Outcome(res) = "not_in_cache" <=> entries = {}
       /\ (Stored(db_result') /\ db_result' # db_result) =>
            LET res == db_result'
            IN  /\ res.expires_at - now \in CacheHours
                /\ \E row \in Entries(temperature_cache', res.city,
                                      res.weather_date) :
                        /\ row.temperature = DECIMAL_5_2(res.temperature)
                        /\ row.expires_at = res.expires_at]_vars

\* An entry stored for one hour is reported expired once the hour has
\* passed, with the temperature it holds.
C22_Witness ==
    /\ db_result.tool = "get_cached_temperature"
    /\ Outcome(db_result) = "cache_expired"
    /\ \E row \in Entries(temperature_cache, db_result.city,
                          db_result.weather_date) :
        /\ row.fetched_at < row.expires_at
        /\ row.expires_at = now
        /\ db_result.last_temperature = row.temperature


\* A step of delete_cached_temperature that the database carried out.
DeleteStep ==
    /\ db_result'.tool = "delete_cached_temperature"
    /\ db_result'.success
    /\ now' = now

\* C23: delete_cached_temperature(city) removes every entry whose city equals
\* the argument without regard to case, whatever its date, reports their
\* number as deleted_count, and leaves the entries of other cities unchanged.
C23_DeleteRemovesCity ==
    [][DeleteStep =>
        LET res == db_result'
            of_city == {row \in temperature_cache :
                            LOWER(row.city) = LOWER(res.city)}
        IN  /\ temperature_cache' = temperature_cache \ of_city
            /\ res.deleted_count = Cardinality(of_city)]_vars

\* A delete has removed the entries of two dates of one city and another
\* city's entry is still there.
C23_Witness ==
    /\ db_result.tool = "delete_cached_temperature"
    /\ db_result.success
    /\ db_result.deleted_count = 2
    /\ \A row \in temperature_cache : LOWER(row.city) # LOWER(db_result.city)
    /\ temperature_cache # {}


\* A step of clear_expired_cache that the database carried out.
ClearStep ==
    /\ db_result'.tool = "clear_expired_cache"
    /\ db_result'.success
    /\ now' = now

\* The entries get_cached_temperature reports as 'cache_expired' / as found.
ReportedExpired(table) ==
    {row \in table : ~is_valid(row.expires_at, now)}

ReportedFound(table) ==
    {row \in table : is_valid(row.expires_at, now)}

\* C29: at the instant of a successful clear_expired_cache no entry is left
\* that get_cached_temperature reports as 'cache_expired', and every entry
\* get_cached_temperature reports as found is still there, unchanged.
C29_ClearAgreesWithGet ==
    [][ClearStep =>
        /\ ReportedExpired(temperature_cache') = {}
        /\ ReportedFound(temperature_cache) \subseteq temperature_cache']_vars


\* ======================================================================
\* get_pool: lesson_5/mcp_servers/db_server.py
\* ======================================================================
\* The server runs each tool invocation as a task of one event loop: a task
\* runs alone from one await that suspends to the next.  get_pool suspends
\* inside aiomysql.create_pool and inside init_db.

NumCallers == 3

Callers == 1..NumCallers

\* A tool invocation calls get_pool: `if _pool is None` either starts
\* create_pool and suspends, or falls through to `return _pool`.
get_pool_enter(c) ==
    /\ get_pool_pc[c] \in {"idle", "returned", "raised"}
    /\ IF _pool = 0
       THEN /\ get_pool_pc' = [get_pool_pc EXCEPT ![c] = "create_pool"]
            /\ get_pool_ret' = [get_pool_ret EXCEPT ![c] = 0]
       ELSE /\ get_pool_pc' = [get_pool_pc EXCEPT ![c] = "returned"]
            /\ get_pool_ret' = [get_pool_ret EXCEPT ![c] = _pool]
    /\ UNCHANGED <<_pool, pools, init_db_runs>>
    /\ UNCHANGED notPoolVars

\* create_pool returns a new pool: it is assigned to _pool and init_db
\* starts, suspending when it acquires a connection.
create_pool_returns(c) ==
    /\ get_pool_pc[c] = "create_pool"
    /\ pools' = pools + 1
    /\ _pool' = pools + 1
    /\ get_pool_pc' = [get_pool_pc EXCEPT ![c] = "init_db"]
    /\ UNCHANGED <<init_db_runs, get_pool_ret>>
    /\ UNCHANGED notPoolVars

\* create_pool raises (the database is not reachable): _pool is not assigned
\* and the exception leaves get_pool.
create_pool_raises(c) ==
    /\ get_pool_pc[c] = "create_pool"
    /\ get_pool_pc' = [get_pool_pc EXCEPT ![c] = "raised"]
    /\ UNCHANGED <<_pool, pools, init_db_runs, get_pool_ret>>
    /\ UNCHANGED notPoolVars

\* init_db has run its schema statements; get_pool returns the global _pool
\* as it is now.
init_db_returns(c) ==
    /\ get_pool_pc[c] = "init_db"
    /\ init_db_runs' = init_db_runs + 1
    /\ get_pool_pc' = [get_pool_pc EXCEPT ![c] = "returned"]
    /\ get_pool_ret' = [get_pool_ret EXCEPT ![c] = _pool]
    /\ UNCHANGED <<_pool, pools>>
    /\ UNCHANGED notPoolVars

InitPool ==
    /\ RouterInit /\ AgentIdle /\ AdapterIdle /\ FlattenIdle
    /\ CacheIdle /\ GraphIdle /\ JsonIdle /\ WorkflowIdle
    /\ _pool = 0
    /\ pools = 0
    /\ init_db_runs = 0
    /\ get_pool_pc = [c \in Callers |-> "idle"]
    /\ get_pool_ret = [c \in Callers |-> 0]

NextPool ==
    \E c \in Callers :
        \/ get_pool_enter(c)
        \/ create_pool_returns(c)
        \/ create_pool_raises(c)
        \/ init_db_returns(c)

SpecPool == InitPool /\ [][NextPool]_vars

\* ---- properties of get_pool ----

\* The pools that callers of get_pool have received.
Received == {get_pool_ret[c] : c \in Callers} \ {0}

\* C28: under every interleaving of concurrent tool invocations the pool is
\* created at most once, init_db runs at most once, and all callers of
\* get_pool receive the same pool.
C28_PoolCreatedOnce ==
    /\ pools <= 1
    /\ init_db_runs <= 1
    /\ Cardinality(Received) <= 1


\* ======================================================================
\* CheckCacheNode and needs_fetch_router: lesson_6/02_langgraph/graph.py
\* ======================================================================
\* A text is the sequence of its words and punctuation marks; the texts used
\* here are chosen so that an indicator occurs in a text exactly when its
\* words occur in it one after the other.

MaxCities == 2

GraphCities == {"Bratislava", "Kosice", "Zilina"}

\* The lists state["cities"] can hold.
CityLists ==
    {cs \in UNION {[1..n -> GraphCities] : n \in 0..MaxCities} :
        \A i, j \in 1..Len(cs) : cs[i] = cs[j] => i = j}

\* str.lower() of one word.
lower_word(w) ==
    CASE w = "CACHED" -> "cached"
      [] w = "MISSING" -> "missing"
      [] w = "Bratislava" -> "bratislava"
      [] w = "Kosice" -> "kosice"
      [] w = "Zilina" -> "zilina"
      [] w = "I" -> "i"
      [] w = "No" -> "no"
      [] w = "The" -> "the"
      [] w = "All" -> "all"
      [] w = "°C" -> "°c"
      [] OTHER -> w

lower(text) == [i \in 1..Len(text) |-> lower_word(text[i])]

\* indicator in text
contains(text, indicator) ==
    \E k \in 0..(Len(text) - Len(indicator)) :
        \A i \in 1..Len(indicator) : text[k + i] = indicator[i]

no_cache_indicators ==
    {<<"none", "of", "the", "cities">>,
     <<"no", "cached">>,
     <<"not", "found">>,
     <<"cache", "is", "empty">>,
     <<"no", "data">>,
     <<"don't", "have">>,
     <<"do", "not", "have">>,
     <<"haven't">>,
     <<"have", "not">>,
     <<"missing">>,
     <<"CACHED", ":", "none">>,
     <<"cached", ":", "none">>}

found_indicators ==
    {<<"found">>, <<"cached", "data">>, <<"temperature">>, <<"°c">>,
     <<"celsius">>, <<"valid">>}

\* "city1, city2", or "none" for no city.
RECURSIVE city_list(_)
city_list(cs) ==
    IF cs = <<>> THEN <<"none">>
    ELSE IF Len(cs) = 1 THEN <<cs[1]>>
    ELSE <<cs[1], ",">> \o city_list(Tail(cs))

\* The answer in the format check_message asks for.
FormatAnswer(cached, missing) ==
    <<"CACHED", ":">> \o city_list(cached) \o <<"\n">> \o
    <<"MISSING", ":">> \o city_list(missing)

\* The answers of the cache-check agent for a list of cities: the format for
\* every split of the cities, the two one-line forms the prompt names, and
\* some answers in free words.
AgentAnswers(cities) ==
    {FormatAnswer(SelectSeq(cities, LAMBDA c : c \in hit),
                  SelectSeq(cities, LAMBDA c : c \notin hit)) :
        hit \in SUBSET Range(cities)}
    \cup {<<"CACHED", ":", "none">>, <<"MISSING", ":", "none">>}
    \cup {<<"I", "found", "cached", "data", "for", "all", "cities">>,
          <<"All", "cities", "are", "cached">>,
          <<"The", "temperature", "is", "21", "°C">>,
          <<"No", "cached", "data", "found">>,
          <<"The", "cache", "is", "empty">>}

\* state.get(key, default) of the MyState dict.
state_get(st, key, default) ==
    IF key \in DOMAIN st THEN st[key] ELSE default

\* CheckCacheNode with a first branch that does not empty `cached`.
check_cache_keeping_cached(cities, content) ==
    LET response_lower == lower(content)
        has_no_cache == \E indicator \in no_cache_indicators :
                            contains(response_lower, indicator)
        has_cache == /\ \E indicator \in found_indicators :
                            contains(response_lower, indicator)
                     /\ ~has_no_cache
        missing == IF has_no_cache \/ ~has_cache THEN cities ELSE <<>>
        cached == cities
    IN  [cached_cities |-> cached, missing_cities |-> missing,
         needs_fetch |-> Len(missing) > 0]

\* What CheckCacheNode returns for the agent's last message.
check_cache(cities, content) ==
    LET response_lower == lower(content)
        has_no_cache == \E indicator \in no_cache_indicators :
                            contains(response_lower, indicator)
        has_cache == /\ \E indicator \in found_indicators :
                            contains(response_lower, indicator)
                     /\ ~has_no_cache
        missing == IF has_no_cache \/ ~has_cache THEN cities ELSE <<>>
        cached == IF has_no_cache \/ ~has_cache THEN <<>> ELSE cities
    IN  [cached_cities |-> cached, missing_cities |-> missing,
         needs_fetch |-> Len(missing) > 0]

CheckCacheNode ==
    /\ "needs_fetch" \notin DOMAIN state
    /\ LET cities == state_get(state, "cities", <<>>)
       IN  \E content \in AgentAnswers(cities) :
            LET update == check_cache(cities, content)
            IN  /\ response_content' = content
                /\ state' = [cities |-> cities,
                             cached_cities |-> update.cached_cities,
                             missing_cities |-> update.missing_cities,
                             needs_fetch |-> update.needs_fetch]
    /\ UNCHANGED route
    /\ UNCHANGED notGraphVars

\* The conditional edge after the cache check.
needs_fetch_router ==
    /\ "needs_fetch" \in DOMAIN state
    /\ route = "none"
    /\ route' = IF state_get(state, "needs_fetch", FALSE)
                THEN "fetch_weather" ELSE "compile_results"
    /\ UNCHANGED <<state, response_content>>
    /\ UNCHANGED notGraphVars

InitGraph ==
    /\ RouterInit /\ AgentIdle /\ AdapterIdle /\ FlattenIdle
    /\ CacheIdle /\ PoolIdle /\ JsonIdle /\ WorkflowIdle
    /\ \E cities \in CityLists : state = [cities |-> cities]
    /\ response_content = <<>>
    /\ route = "none"

NextGraph == CheckCacheNode \/ needs_fetch_router

SpecGraph == InitGraph /\ [][NextGraph]_vars

\* ---- properties of the cache check ----

\* The agent answered in the format and reported every requested city cached.
AllCachedAnswer ==
    /\ "needs_fetch" \in DOMAIN state
    /\ response_content = FormatAnswer(state.cities, <<>>)

\* C27: when the cache-check agent answers in the format CheckCacheNode asks
\* for and reports every requested city cached, CheckCacheNode yields
\* cached_cities = cities, missing_cities = [] and needs_fetch = False, and
\* needs_fetch_router routes to compile_results.
C27_AllCachedSkipsFetch ==
    AllCachedAnswer =>
        /\ state.cached_cities = state.cities
        /\ state.missing_cities = <<>>
        /\ state.needs_fetch = FALSE
        /\ route \in {"none", "compile_results"}

\* CheckCacheNode has put its result into the state.
CacheChecked == "needs_fetch" \in DOMAIN state

\* C32: after CheckCacheNode, whatever the agent answered, cached_cities and
\* missing_cities have no city in common and together hold exactly the
\* requested cities, needs_fetch is true exactly when missing_cities is not
\* empty, and an empty list of cities gives needs_fetch = False.
C32_CachedMissingPartition ==
    CacheChecked =>
        /\ Range(state.cached_cities) \cap Range(state.missing_cities) = {}
        /\ Range(state.cached_cities) \cup Range(state.missing_cities)
                = Range(state.cities)
        /\ Len(state.cached_cities) + Len(state.missing_cities)
                = Len(state.cities)
        /\ state.needs_fetch = (state.missing_cities # <<>>)
        /\ state.cities = <<>> => state.needs_fetch = FALSE

\* Two cities were requested and an answer in free words made CheckCacheNode
\* report both as cached, with nothing to fetch.
C32_Witness ==
    /\ CacheChecked
    /\ Len(state.cities) = 2
    /\ response_content \notin {FormatAnswer(c, m) : c, m \in CityLists}
    /\ state.cached_cities = state.cities
    /\ state.missing_cities = <<>>
    /\ state.needs_fetch = FALSE


\* ======================================================================
\* Router: advertised against routable tools
\* ======================================================================
\* The tool names call_tool passes on to a server's session.
DispatchedRemotely ==
    {t \in ToolNames :
        lookup_owner(t) # "None" /\ has_session(Conn(lookup_owner(t)))}

\* C30: after any sequence of connect() and disconnect(), failed connects
\* included, every name get_tools_definitions() returns is dispatched by
\* call_tool to a connected source that reported that name, and every name
\* call_tool dispatches to a source is among those get_tools_definitions()
\* returns.
C30_AdvertisedIsRoutable ==
    (last.op = "get_tools_definitions" /\ ~last.raised) =>
        LET advertised == Range(DefinitionNames(last.defs))
        IN  /\ \A t \in advertised :
                /\ t \in DispatchedRemotely
                /\ _connected[lookup_owner(t)]
                /\ t \in Range(tools[lookup_owner(t)])
            /\ DispatchedRemotely \subseteq advertised


\* ======================================================================
\* Adapters: OllamaClient against LLMClient's direct path
\* ======================================================================

\* C24: for every response body of the backend, OllamaClient._to_openai_format
\* and LLMClient._convert_ollama_to_openai either both fail or both give a
\* completion, with the same content, the same tool calls in the same order
\* (ids, names, argument texts) and the same finish reason.
C24_SameConversion ==
    (completion.OllamaClient # Pending /\ completion.LLMClient # Pending) =>
        /\ Normal("OllamaClient") <=> Normal("LLMClient")
        /\ Normal("OllamaClient") =>
            /\ completion.OllamaClient.message.content =
                    completion.LLMClient.message.content
            /\ completion.OllamaClient.message.tool_calls =
                    completion.LLMClient.message.tool_calls
            /\ completion.OllamaClient.finish_reason =
                    completion.LLMClient.finish_reason

\* Both clients converted a body with two tool calls, the second without an
\* id of its own, and a finish reason other than the default.
C24_Witness ==
    /\ Normal("OllamaClient") /\ Normal("LLMClient")
    /\ http.body.done_reason = "length"
    /\ completion.LLMClient.finish_reason = "length"
    /\ Len(http.body.message.tool_calls) = 2
    /\ http.body.message.tool_calls[2].id = Absent
    /\ completion.LLMClient.message.tool_calls[2].id = "call_1"


\* ======================================================================
\* Agents: the conversation
\* ======================================================================

\* C25: during one agent execution the conversation is append-only: every
\* step leaves the messages present before it unchanged and at their
\* positions, and only adds messages at the end.
C25_ConversationAppendOnly ==
    [][/\ Len(messages') >= Len(messages)
       /\ \A i \in 1..Len(messages) : messages'[i] = messages[i]]_vars

\* A run has ended after at least two rounds of tool calls, the system and
\* user messages still in front.
C25_Witness ==
    /\ pc = "returned"
    /\ Len(messages) >= 6
    /\ messages[1] = SystemMessage
    /\ messages[2] = UserMessage
    /\ Cardinality({i \in 1..Len(messages) : messages[i].role = "tool"}) >= 2


\* ======================================================================
\* Tool-call arguments: from the adapter's json.dumps to the loop's json.loads
\* ======================================================================

MaxArgs == 2

ArgKeys == {<<"c", "i", "t", "y">>, <<"q", "\"">>, <<>>}

\* Values of an argument: texts (plain, empty, with characters that need an
\* escape), integers, the three literals, lists and mappings.
ArgValues ==
    {JsonValue("str", <<"B", "r", "n", "o">>, 0, <<>>),
     JsonValue("str", <<"a", "\"", "\\", "\n", "é", "/">>, 0, <<>>),
     JsonValue("str", <<>>, 0, <<>>),
     JsonValue("int", <<>>, 0, <<>>),
     JsonValue("int", <<>>, -7, <<>>),
     JsonValue("int", <<>>, 120, <<>>),
     JsonValue("true", <<>>, 0, <<>>),
     JsonValue("false", <<>>, 0, <<>>),
     JsonNone,
     JsonValue("list", <<>>, 0, <<>>),
     JsonValue("list", <<>>, 0,
               <<JsonValue("int", <<>>, 1, <<>>),
                 JsonValue("str", <<"a">>, 0, <<>>)>>),
     JsonValue("dict", <<>>, 0, <<>>),
     JsonValue("dict", <<>>, 0, <<<<<<"k">>, JsonNone>>>>)}

\* The argument mappings: up to MaxArgs members with different keys.
ArgMappings ==
    {JsonValue("dict", <<>>, 0, items) :
        items \in {m \in UNION {[1..n -> ArgKeys \X ArgValues] : n \in 0..MaxArgs} :
                      \A i, j \in 1..Len(m) : m[i][1] = m[j][1] => i = j}}

\* if isinstance(arguments, dict): arguments = json.dumps(arguments)
AdapterDumps ==
    /\ json_text = <<>>
    /\ json_text' = dumps(json_obj)
    /\ UNCHANGED <<json_obj, json_parsed>>
    /\ UNCHANGED notJsonVars

\* function_args = json.loads(tool_call.function.arguments or "{}")
LoopLoads ==
    /\ json_text # <<>>
    /\ json_parsed = <<>>
    /\ json_parsed' = <<loads(json_text)>>
    /\ UNCHANGED <<json_obj, json_text>>
    /\ UNCHANGED notJsonVars

InitJson ==
    /\ RouterInit /\ AgentIdle /\ AdapterIdle /\ FlattenIdle
    /\ CacheIdle /\ PoolIdle /\ GraphIdle /\ WorkflowIdle
    /\ json_obj \in ArgMappings
    /\ json_text = <<>>
    /\ json_parsed = <<>>

NextJson == AdapterDumps \/ LoopLoads

SpecJson == InitJson /\ [][NextJson]_vars

\* C26: for every argument mapping, the text json.dumps makes of it is
\* parsed by json.loads without error into a mapping equal to the original.
C26_DumpsLoadsRoundTrip ==
    json_parsed # <<>> =>
        /\ json_parsed[1].ok
        /\ json_parsed[1].value = json_obj

\* A mapping of two members, one of them a text with a quote, a backslash,
\* a newline and a character outside ASCII, has made the round trip.
C26_Witness ==
    /\ json_parsed # <<>>
    /\ json_parsed[1].ok
    /\ Len(json_parsed[1].value.items) = 2
    /\ \E i \in 1..2 :
        /\ json_obj.items[i][2].type = "str"
        /\ {"\"", "\\", "\n", "é"} \subseteq Range(json_obj.items[i][2].chars)
        /\ json_parsed[1].value.items[i] = json_obj.items[i]
    /\ Len(json_text) > 20

(***************************************************************************)
(* The multi-city workflow definition (lesson_5                            *)
(* workflows/temperature_cache_workflow.py) and its execution as           *)
(* run_multi_city_workflow starts it (lesson_5 temperature_workflow.py).   *)
(* The definition is data: nodes with an id, a type and the ids that come  *)
(* next.  An execution stands on one node at a time and moves along        *)
(* "next"; a condition node has two successors, in the order [true, false].*)
(***************************************************************************)

\* One entry of "nodes": its "id", its "type" and its "next" list.
Node(id, type, next) == [id |-> id, type |-> type, next |-> next]

\* The same definition with fetch_missing_cities wired straight to "end".
MULTI_CITY_TEMPERATURE_WORKFLOW_fetch_to_end ==
    << Node("start", "start", <<"check_all_caches">>),
       Node("check_all_caches", "task", <<"fetch_missing_decision">>),
       Node("fetch_missing_decision", "condition",
            <<"fetch_missing_cities", "compile_results">>),
       Node("fetch_missing_cities", "task", <<"end">>),
       Node("compile_results", "task", <<"end">>),
       Node("end", "end", <<>>) >>

\* MULTI_CITY_TEMPERATURE_WORKFLOW["nodes"]
MULTI_CITY_TEMPERATURE_WORKFLOW ==
    << Node("start", "start", <<"check_all_caches">>),
       Node("check_all_caches", "task", <<"fetch_missing_decision">>),
       Node("fetch_missing_decision", "condition",
            <<"fetch_missing_cities", "compile_results">>),
       Node("fetch_missing_cities", "task", <<"compile_results">>),
       Node("compile_results", "task", <<"end">>),
       Node("end", "end", <<>>) >>

\* The ids the definition gives to its nodes.
node_ids == {MULTI_CITY_TEMPERATURE_WORKFLOW[i].id :
                i \in 1..Len(MULTI_CITY_TEMPERATURE_WORKFLOW)}

\* The entries of the definition that carry the id.
nodes_with_id(id) ==
    {i \in 1..Len(MULTI_CITY_TEMPERATURE_WORKFLOW) :
        MULTI_CITY_TEMPERATURE_WORKFLOW[i].id = id}

\* The node an id names.
node_by_id(id) ==
    MULTI_CITY_TEMPERATURE_WORKFLOW[CHOOSE i \in nodes_with_id(id) : TRUE]

\* EXAMPLE_CITIES, written without diacritics.
EXAMPLE_CITIES == <<"Bratislava", "Kosice", "Trencin">>

\* The lists of cities run_multi_city_workflow can be called with: taken
\* from EXAMPLE_CITIES, in any order, none twice, the empty list included.
WorkflowRequests ==
    {cs \in UNION {[1..n -> Range(EXAMPLE_CITIES)] : n \in 0..Len(EXAMPLE_CITIES)} :
        \A i, j \in 1..Len(cs) : cs[i] = cs[j] => i = j}

\* The execution moves on to the node the id names.
enter(id) ==
    /\ current_node' = id
    /\ visited' = Append(visited, id)

\* result = await agent.execute(task, context): the execution enters the
\* node of type "start".
execute ==
    /\ current_node = "none"
    /\ \E i \in 1..Len(MULTI_CITY_TEMPERATURE_WORKFLOW) :
        /\ MULTI_CITY_TEMPERATURE_WORKFLOW[i].type = "start"
        /\ enter(MULTI_CITY_TEMPERATURE_WORKFLOW[i].id)
    /\ UNCHANGED <<context, condition_result>>
    /\ UNCHANGED notWorkflowVars

\* A "start" or "task" node is done: the execution follows its one "next".
run_node ==
    /\ current_node \in node_ids
    /\ node_by_id(current_node).type \in {"start", "task"}
    /\ \E id \in Range(node_by_id(current_node).next) : enter(id)
    /\ UNCHANGED <<context, condition_result>>
    /\ UNCHANGED notWorkflowVars

\* A "condition" node is answered: "next" is [true, false], the first id
\* is followed on "true", the second on "false".
run_condition ==
    /\ current_node \in node_ids
    /\ node_by_id(current_node).type = "condition"
    /\ \E answer \in {"true", "false"} :
        /\ condition_result' = answer
        /\ enter(node_by_id(current_node).next[IF answer = "true" THEN 1 ELSE 2])
    /\ UNCHANGED context
    /\ UNCHANGED notWorkflowVars

\* agent.build_workflow(MULTI_CITY_TEMPERATURE_WORKFLOW) has run and
\* context = {"cities": cities} is ready.
InitWorkflow ==
    /\ RouterInit /\ AgentIdle /\ AdapterIdle /\ FlattenIdle
    /\ CacheIdle /\ PoolIdle /\ GraphIdle /\ JsonIdle
    /\ context \in {[cities |-> cs] : cs \in WorkflowRequests}
    /\ current_node = "none"
    /\ visited = <<>>
    /\ condition_result = "none"

NextWorkflow == execute \/ run_node \/ run_condition

\* run_multi_city_workflow awaits execute to its end: an execution that can
\* move on does move on.
SpecWorkflow == InitWorkflow /\ [][NextWorkflow]_vars /\ WF_vars(NextWorkflow)

\* The ids a node's "next" names.
successors(id) == IF id \in node_ids THEN Range(node_by_id(id).next) ELSE {}

\* The ids that are reached from the given ones in one to `steps` moves.
RECURSIVE reached_within(_, _)
reached_within(ids, steps) ==
    IF steps = 0
    THEN {}
    ELSE LET nxt == UNION {successors(id) : id \in ids}
         IN  nxt \cup reached_within(nxt, steps - 1)

\* Every "next" id is the id of exactly one node of the definition.
NextIdsDefined ==
    \A i \in 1..Len(MULTI_CITY_TEMPERATURE_WORKFLOW) :
        \A id \in Range(MULTI_CITY_TEMPERATURE_WORKFLOW[i].next) :
            Cardinality(nodes_with_id(id)) = 1

\* No node is reached from itself.
Acyclic ==
    \A id \in node_ids :
        id \notin reached_within({id}, Len(MULTI_CITY_TEMPERATURE_WORKFLOW))

\* An execution that stands on "end" has stood on compile_results, and one
\* that cannot move on stands on "end".
ThroughCompileResults ==
    /\ current_node = "end" => "compile_results" \in Range(visited)
    /\ (current_node # "none" /\ successors(current_node) = {}) =>
            current_node = "end"

\* An execution has stood on fetch_missing_cities only if the condition
\* node answered "true" and sent it there.
FetchOnlyOnTrueBranch ==
    \A i \in 1..Len(visited) :
        visited[i] = "fetch_missing_cities" =>
            /\ condition_result = "true"
            /\ i > 1
            /\ visited[i - 1] = "fetch_missing_decision"

\* C31: in MULTI_CITY_TEMPERATURE_WORKFLOW every "next" id names a defined
\* node, the graph has no cycle, every execution from "start", whichever
\* way the condition node answers, stands on compile_results before it
\* stands on "end" and does reach "end", and fetch_missing_cities is stood
\* on only when the condition answered "true".
C31_WorkflowReachesEnd ==
    /\ [](NextIdsDefined /\ Acyclic /\ ThroughCompileResults
            /\ FetchOnlyOnTrueBranch)
    /\ <>[](current_node = "end")

\* An execution for two cities was answered "true" at the condition and
\* stands on "end", after fetch_missing_cities and compile_results.
C31_Witness ==
    /\ Len(context.cities) = 2
    /\ current_node = "end"
    /\ condition_result = "true"
    /\ visited = <<"start", "check_all_caches", "fetch_missing_decision",
                   "fetch_missing_cities", "compile_results", "end">>

====
